---- MODULE Spec2Model ----
(***************************************************************************)
(* Order-book synchronisation of the ETH order-flow bot.                   *)
(*                                                                         *)
(*   BinanceConnector   (src/binance_connector_v2.py)  REST snapshot,      *)
(*                      diff buffering, U/u sequence validation, re-sync   *)
(*   OrderFlowAnalyzer  (src/order_flow_analyzer_v2.py) update_orderbook,  *)
(*                      get_mid_price                                      *)
(*                                                                         *)
(* The exchange is the environment: it keeps the true book, numbers every  *)
(* level change, batches the changes into depth events [U, u, b, a] and    *)
(* serves REST snapshots from a cache that may lag behind the stream.      *)
(* Events can be lost (while the socket is down, or in transit).           *)
(*                                                                         *)
(* One action is one run of the order-book task between two suspension     *)
(* points (HTTP response, next frame, reconnect sleep): the callbacks are  *)
(* coroutines without an await of their own, so they run inside the step.  *)
(***************************************************************************)
EXTENDS Integers, Sequences, FiniteSets, TLC

\* ------------------------------------------------------------------ bounds

\* Lowest price of the modelled ladder (scenario S1 quotes 2000/2001).
BasePrice == 2000
\* Number of price levels of the modelled ladder.
NumPrices == 2
\* Largest size the exchange quotes at a level.
MaxSize == 1
\* Update id of the exchange when the bot starts (scenario S1: 100).
BaseId == 100
\* Number of level changes the exchange makes during a run.
MaxUpdates == 5
\* Largest number of level changes batched into one depth event.
MaxBatch == 2

\* A capacity the pending-diff buffer is checked against.
PendingCapacity == 3

\* The wall clock when the bot starts (any time later than the 10 s a sweep lives).
StartTime == 20
\* The wall clock up to which trades are followed.
MaxTime == 36
\* Number of trades the trade stream delivers during a run.
MaxTrades == 3

\* Sizes of the trade tick are counted in 1 / SizeDivisor of a coin.
SizeDivisor == 2
\* Number of book updates followed before and between the trades.
MaxBookUpdates == 2
\* Number of trades followed for the volatility regime (fewer than the 100
\* price changes the analyzer keeps).
MaxRegimeTrades == 22

\* --------------------------------------------------------- program constants

\* config.MAX_ORDERBOOK_LEVELS
MAX_ORDERBOOK_LEVELS == 50
\* "if self.desync_count >= 3"
DESYNC_LIMIT == 3
\* "if len(self.price_changes) >= 20"
ATR_MIN_CHANGES == 20

Prices == BasePrice .. (BasePrice + NumPrices - 1)
Sizes == 0 .. MaxSize
\* Marks a price an event says nothing about
NoChange == 0 - 1

VARIABLES
    \* ---- exchange (environment)
    xBook,              \* true book: Prices -> [bid, ask]
    xId,                \* id of the last level change
    restBook, restId,   \* what GET /depth answers (a cached copy of the above)
    batch,              \* changes since the last depth event: [U, b, a]
    \* ---- BinanceConnector
    last_update_id,
    synced,
    desync_count,
    snapshot_pending,
    running,
    obPc,               \* where the order-book task is suspended
    fetchCtx,           \* the top-level caller of the running snapshot fetch
    \* ---- OrderFlowAnalyzer
    order_book,
    previous_book,
    is_snapshot_loaded,
    current_price,
    \* ---- history of the last step (observers only)
    fwd,                \* what the step handed to orderbook_callback, in order
    appliedSinceSnap,   \* a diff was applied since the last snapshot
    runLen,             \* diffs in a row, up to the last one validated, whose U was not
                        \* last_update_id + 1 (a run ends with the re-snapshot it causes)
    lastEvent,          \* what the step was, and on what input
    \* ---- wall clock (time.time(), in seconds)
    now,
    \* ---- config
    MIN_DELTA_FLIP,     \* config.MIN_DELTA_FLIP: 10 in config.py, 30 in scenarios S4-S6
    \* ---- ETHOrderFlowBot
    trade_count,
    \* ---- OrderFlowAnalyzer: what sweep detection reads besides the books
    book_snapshot_time,
    recent_trades_for_sweep,
    \* ---- SignalGenerator
    last_signal_time,
    signal_history,
    recent_sweep,
    sweep_time,
    previous_delta,
    delta_history_len,  \* len(delta_history), counted up to 2 (all the code asks of it)
    current_state,      \* [sweep_detected, absorption_detected, delta_flip, price_reclaim]
    signals_generated,
    signals_filtered,
    filter_reasons,
    \* ---- observers of the last trade tick
    bookBefore,         \* order_book as the last book update found it
    sweepReport,        \* what detect_liquidity_sweep returned on the tick
    previousReport,     \* the same for the tick before; NoSweep after BookUpdate
    bookUpdatesSeen,    \* book updates followed so far
    rejections,         \* calls of check_regime_filter, by reason, that rejected
    \* ---- OrderFlowAnalyzer: volatility
    price_history_last, \* price_history[-1], 0 while price_history is empty
    price_changes_len,  \* len(price_changes)
    price_changes_sum,  \* sum(price_changes), times PriceDenominator
    oldest_change,      \* price_changes[0], times PriceDenominator; 0 while empty
    analyzer_atr,       \* self.atr as [set, value]: None, or the mean in units of 1e-5
    volatility_state,
    \* ---- OrderFlowAnalyzer: absorption
    analyzer_trades,    \* self.trades, oldest first
    lastAbsorption,     \* what detect_absorption returned on the last trade tick
    \* ---- the asyncio event loop
    loopTask,           \* the task inside a handler: "orderbook", "trades" or "none"
    bookPc,             \* on_orderbook_update: "recv" (suspended), "asks" (bids applied)
    tradePc,            \* on_trade: "recv" (suspended), "state" (add_trade done),
                        \* "signal" (get_market_state done)
    bookData,           \* the update on_orderbook_update is applying
    observedPartial,    \* get_market_state read the book between bids and asks
    \* ---- BinanceConnector: the trades stream
    trPc,               \* where the trades task is suspended
    trades_ws           \* self.trades_ws: "none", or the state of the socket it names

envVars == <<xBook, xId, restBook, restId, batch>>
connVars == <<last_update_id, synced, desync_count, snapshot_pending, running, obPc, fetchCtx>>
bookVars == <<order_book, previous_book, is_snapshot_loaded, current_price>>
histVars == <<fwd, appliedSinceSnap, runLen, lastEvent>>
genVars == <<last_signal_time, signal_history, recent_sweep, sweep_time, previous_delta,
             delta_history_len, current_state, signals_generated, signals_filtered,
             filter_reasons, rejections>>
sweepVars == <<book_snapshot_time, recent_trades_for_sweep, bookBefore, sweepReport, previousReport,
               bookUpdatesSeen>>
\* what the order-book task of the connector never touches
regimeVars == <<price_history_last, price_changes_len, price_changes_sum, oldest_change,
                analyzer_atr, volatility_state>>
absorptionVars == <<analyzer_trades, lastAbsorption>>
taskVars == <<loopTask, bookPc, tradePc, bookData, observedPartial>>
tradesVars == <<trPc, trades_ws>>
flowVars == <<now, MIN_DELTA_FLIP, trade_count, genVars, sweepVars, regimeVars,
              absorptionVars, taskVars,
              tradesVars>>
vars == <<envVars, connVars, bookVars, histVars, flowVars>>

\* ------------------------------------------------------------ small helpers

Max(S) == CHOOSE x \in S : \A y \in S : y <= x
Min(S) == CHOOSE x \in S : \A y \in S : x <= y
Abs(x) == IF x < 0 THEN -x ELSE x

EmptyBook == [p \in {} |-> [bid |-> 0, ask |-> 0]]

\* SortedDict.pop(price, None)
Pop(book, p) == [q \in (DOMAIN book) \ {p} |-> book[q]]

\* SortedDict.__setitem__
Put(book, p, lvl) == [q \in (DOMAIN book) \cup {p} |-> IF q = p THEN lvl ELSE book[q]]


\* ------------------------------------------------- OrderFlowAnalyzer: the book

\* get_mid_price, doubled so that it stays an integer: best_bid + best_ask when
\* both sides are quoted, else 2 * current_price (also for an empty book).
get_mid_price2(book, cur) ==
    LET bidPs == {p \in DOMAIN book : book[p].bid > 0}
        askPs == {p \in DOMAIN book : book[p].ask > 0}
    IN  IF bidPs # {} /\ askPs # {} THEN Max(bidPs) + Min(askPs) ELSE 2 * cur

\* The book is a SortedDict of dict objects and previous_book is a shallow copy
\* of it: a level of previous_book is the same object as the level of
\* order_book until that one is popped. st = [book, prev, shared], shared being
\* the prices whose level object the two books still share.

\* RemoveLevel as a bug would have it: the side is set to 0 and the level kept
RemoveLevelKeepsZero(st, side, p) ==
    IF p \in DOMAIN st.book
    THEN [st EXCEPT !.book = Put(st.book, p,
            IF side = "bid" THEN [st.book[p] EXCEPT !.bid = 0]
                            ELSE [st.book[p] EXCEPT !.ask = 0])]
    ELSE st

\* "if size == 0: self.order_book.pop(price, None)"
RemoveLevel(st, side, p) ==
    [st EXCEPT !.book = Pop(st.book, p), !.shared = st.shared \ {p}]

\* "self.order_book[price] = {'bid': size, 'ask': 0}" and its ask twin
NewLevel(st, side, p, size) ==
    [st EXCEPT !.book = Put(st.book, p,
        IF side = "bid" THEN [bid |-> size, ask |-> 0] ELSE [bid |-> 0, ask |-> size])]

\* "self.order_book[price]['bid'] = size" and its ask twin: in place, so seen
\* through previous_book too while the object is shared
SetSide(st, side, p, size) ==
    LET set(l) == IF side = "bid" THEN [l EXCEPT !.bid = size] ELSE [l EXCEPT !.ask = size]
    IN  [st EXCEPT !.book = Put(st.book, p, set(st.book[p])),
                   !.prev = IF p \in st.shared THEN Put(st.prev, p, set(st.prev[p])) ELSE st.prev]

\* One (price, size) entry of data['bids'] or data['asks']
ApplyEntry(st, side, p, size) ==
    IF size = 0 THEN RemoveLevel(st, side, p)
    ELSE IF p \notin DOMAIN st.book THEN NewLevel(st, side, p, size)
    ELSE SetSide(st, side, p, size)

\* "for price, size in data['bids']" (or data['asks']), from entry i on
RECURSIVE ApplySide(_, _, _, _)
ApplySide(st, side, entries, i) ==
    IF i > Len(entries) THEN st
    ELSE ApplySide(ApplyEntry(st, side, entries[i][1], entries[i][2]), side, entries, i + 1)

\* "abs(k - mid_price) > mid_price * 0.01", on the doubled mid price
FarFromMid(k, mid2) == 100 * Abs(2 * k - mid2) > mid2

\* "Keep only reasonable number of levels"
TrimBook(st, cur) ==
    IF Cardinality(DOMAIN st.book) > MAX_ORDERBOOK_LEVELS * 2
    THEN LET mid2 == get_mid_price2(st.book, cur)
             keep == {k \in DOMAIN st.book : ~FarFromMid(k, mid2)}
         IN  IF mid2 # 0
             THEN [st EXCEPT !.book = [q \in keep |-> st.book[q]],
                             !.shared = st.shared \cap keep]
             ELSE st
    ELSE st

\* update_orderbook: a = [order_book, previous_book, is_snapshot_loaded], data a
\* snapshot or a normalised diff. current_price is only read.
update_orderbook(a, data, cur) ==
    LET start == IF data.is_snapshot THEN EmptyBook ELSE a.order_book
        st0 == [book |-> start, prev |-> start, shared |-> DOMAIN start]
        st1 == ApplySide(st0, "bid", data.bids, 1)
        st2 == ApplySide(st1, "ask", data.asks, 1)
        st3 == TrimBook(st2, cur)
    IN  [order_book |-> st3.book,
         previous_book |-> st3.prev,
         is_snapshot_loaded |-> a.is_snapshot_loaded \/ data.is_snapshot]


\* ------------------------------------------------------------ BinanceConnector

\* The state one run of the order-book task works on: the connector's fields,
\* the analyzer behind orderbook_callback, and the step's history.
\* refetch: the run reached "await self.fetch_orderbook_snapshot()" (line 189).

\* "await self.orderbook_callback(...)": ETHOrderFlowBot.on_orderbook_update
\* hands the update to OrderFlowAnalyzer.update_orderbook
orderbook_callback(m, data, cur) ==
    LET an == update_orderbook([order_book |-> m.order_book,
                                previous_book |-> m.previous_book,
                                is_snapshot_loaded |-> m.is_snapshot_loaded], data, cur)
    IN  [m EXCEPT !.order_book = an.order_book,
                  !.previous_book = an.previous_book,
                  !.is_snapshot_loaded = an.is_snapshot_loaded,
                  !.fwd = Append(m.fwd,
                        [snap |-> data.is_snapshot, U |-> data.U, u |-> data.u,
                         exp |-> data.exp, first |-> data.first, wasSynced |-> data.wasSynced]),
                  !.appliedSinceSnap = ~data.is_snapshot]

\* Lines 194-211: "Update is valid - process it". exp, first and wasSynced only
\* label the forwarded update for the observers.
ForwardDiff(m, d, cur, exp, wasSynced) ==
    orderbook_callback(
        [m EXCEPT !.last_update_id = d.u],
        [is_snapshot |-> FALSE, bids |-> d.b, asks |-> d.a, U |-> d.U, u |-> d.u,
         exp |-> exp, first |-> ~m.appliedSinceSnap, wasSynced |-> wasSynced],
        cur)

\* CoversSnapshot as a bug would have it: the upper half of the test is missing
CoversSnapshotNoUpper(lu, d) == d.U <= lu + 1

\* Lines 170-177: is d the first valid update after the snapshot?
CoversSnapshot(lu, d) == d.U <= lu + 1 /\ lu + 1 <= d.u

\* Lines 179-192: a diff whose U is not last_update_id + 1 is a sequence gap
IsGap(lu, d) == d.U # lu + 1

\* ResetDesync as a bug would have it: the counter survives a good sequence
ResetDesyncKeeps(n) == n

\* Line 192: "self.desync_count = 0  # Reset on good sequence"
ResetDesync(n) == 0

\* OnGap as a bug would have it: the limit is tested with > instead of >=
OnGapOffByOne(m, d, cur, wasSynced) ==
    LET n == m.desync_count + 1
        m1 == [m EXCEPT !.runLen = IF m.runLen >= DESYNC_LIMIT THEN 1 ELSE m.runLen + 1]
    IN  IF n > DESYNC_LIMIT
        THEN [m1 EXCEPT !.synced = FALSE, !.desync_count = 0, !.refetch = TRUE]
        ELSE ForwardDiff([m1 EXCEPT !.desync_count = n], d, cur, m.last_update_id + 1, wasSynced)

\* Lines 182-190: count the gap; at DESYNC_LIMIT leave Synced and re-snapshot,
\* below it fall through to the forwarding code
OnGap(m, d, cur, wasSynced) ==
    LET n == m.desync_count + 1
        m1 == [m EXCEPT !.runLen = IF m.runLen >= DESYNC_LIMIT THEN 1 ELSE m.runLen + 1]
    IN  IF n >= DESYNC_LIMIT
        THEN [m1 EXCEPT !.synced = FALSE, !.desync_count = 0, !.refetch = TRUE]
        ELSE ForwardDiff([m1 EXCEPT !.desync_count = n], d, cur, m.last_update_id + 1, wasSynced)

\* Lines 179-211, entered with self.synced true
ValidateAndForward(m, d, cur, wasSynced) ==
    IF IsGap(m.last_update_id, d)
    THEN OnGap(m, d, cur, wasSynced)
    ELSE ForwardDiff([m EXCEPT !.desync_count = ResetDesync(m.desync_count), !.runLen = 0],
                     d, cur, m.last_update_id + 1, wasSynced)

\* _process_orderbook_update
process_orderbook_update(m, d, cur) ==
    IF ~m.synced
    THEN IF CoversSnapshot(m.last_update_id, d)
         THEN ValidateAndForward([m EXCEPT !.synced = TRUE], d, cur, FALSE)
         ELSE m
    ELSE ValidateAndForward(m, d, cur, TRUE)

\* _process_buffered_updates: "for data in self.snapshot_pending", from entry i
\* on. It stops where an update re-enters fetch_orderbook_snapshot: that call
\* drains the same list from its start and clears it, which ends this loop.
RECURSIVE process_buffered_updates(_, _, _, _)
process_buffered_updates(m, pending, i, cur) ==
    IF i > Len(pending) THEN m
    ELSE LET m2 == process_orderbook_update(m, pending[i], cur)
         IN  IF m2.refetch THEN m2 ELSE process_buffered_updates(m2, pending, i + 1, cur)

\* fetch_orderbook_snapshot, from the HTTP 200 response on (lines 51-76)
fetch_orderbook_snapshot(m, snap, pending, cur) ==
    LET m1 == orderbook_callback(
                 [m EXCEPT !.last_update_id = snap.lastUpdateId],
                 [is_snapshot |-> TRUE, bids |-> snap.bids, asks |-> snap.asks,
                  U |-> 0, u |-> snap.lastUpdateId,
                  exp |-> 0, first |-> FALSE, wasSynced |-> m.synced],
                 cur)
    IN  process_buffered_updates(m1, pending, 1, cur)


\* ------------------------------------------------------ exchange (environment)

\* A book the exchange can be in: no price quoted on both sides, and every bid
\* below every ask.
ExchangeBookOk(book) ==
    /\ \A p \in Prices : ~(book[p].bid > 0 /\ book[p].ask > 0)
    /\ \A p, q \in Prices : book[p].bid > 0 /\ book[q].ask > 0 => p < q

NoChanges == [p \in Prices |-> NoChange]
EmptyBatch == [U |-> 0, b |-> NoChanges, a |-> NoChanges]

\* The [price, qty] entries of one side of a depth event, ascending in price
RECURSIVE ChangedEntries(_, _)
ChangedEntries(f, p) ==
    IF p \notin Prices THEN <<>>
    ELSE (IF f[p] = NoChange THEN <<>> ELSE << <<p, f[p]>> >>) \o ChangedEntries(f, p + 1)

\* The depth event the stream sends for the batch: {U, u, b, a}
EventOf(bt, lastId) ==
    [U |-> bt.U, u |-> lastId,
     b |-> ChangedEntries(bt.b, BasePrice), a |-> ChangedEntries(bt.a, BasePrice)]

\* The quoted levels of one side of a REST snapshot (bids come best first)
RECURSIVE QuotedBids(_, _)
QuotedBids(book, p) ==
    IF p \notin Prices THEN <<>>
    ELSE (IF book[p].bid > 0 THEN << <<p, book[p].bid>> >> ELSE <<>>) \o QuotedBids(book, p - 1)

RECURSIVE QuotedAsks(_, _)
QuotedAsks(book, p) ==
    IF p \notin Prices THEN <<>>
    ELSE (IF book[p].ask > 0 THEN << <<p, book[p].ask>> >> ELSE <<>>) \o QuotedAsks(book, p + 1)

\* GET /depth: {lastUpdateId, bids, asks}
SnapshotOf(book, id) ==
    [lastUpdateId |-> id,
     bids |-> QuotedBids(book, BasePrice + NumPrices - 1),
     asks |-> QuotedAsks(book, BasePrice)]

\* The record of the task's last step: what it was, the ids of the update it
\* was given, and (from the state it started in) the number of buffered diffs,
\* desync_count and the caller of the fetch.
Event(kind, U, u) ==
    [kind |-> kind, U |-> U, u |-> u,
     n |-> Len(snapshot_pending), dc |-> desync_count, ctx |-> fetchCtx]

\* Before the order-book task has taken a step
NoEvent == [kind |-> "none", U |-> 0, u |-> 0, n |-> 0, dc |-> 0, ctx |-> "none"]

\* The exchange's steps leave the record of the task's last step alone.
EnvStep == UNCHANGED <<histVars, flowVars>>

\* The exchange is followed while the order-book task is alive.
TaskAlive == obPc \notin {"dead", "done"}

\* The exchange changes one side of one level and numbers the change.
ExchangeChange ==
    /\ TaskAlive
    /\ xId < BaseId + MaxUpdates
    /\ batch.U = 0 \/ xId - batch.U + 1 < MaxBatch
    /\ \E side \in {"bid", "ask"}, p \in Prices, q \in Sizes :
          LET lvl == IF side = "bid" THEN [xBook[p] EXCEPT !.bid = q]
                                     ELSE [xBook[p] EXCEPT !.ask = q]
              nb == [xBook EXCEPT ![p] = lvl]
          IN  /\ lvl # xBook[p]
              /\ ExchangeBookOk(nb)
              /\ xBook' = nb
              /\ batch' = [U |-> IF batch.U = 0 THEN xId + 1 ELSE batch.U,
                           b |-> IF side = "bid" THEN [batch.b EXCEPT ![p] = q] ELSE batch.b,
                           a |-> IF side = "ask" THEN [batch.a EXCEPT ![p] = q] ELSE batch.a]
    /\ xId' = xId + 1
    /\ EnvStep
    /\ UNCHANGED <<restBook, restId, connVars, bookVars>>

\* The REST cache catches up with the book.
RestRefresh ==
    /\ TaskAlive
    /\ restId # xId
    /\ restBook' = xBook
    /\ restId' = xId
    /\ EnvStep
    /\ UNCHANGED <<xBook, xId, batch, connVars, bookVars>>

\* A depth event that never reaches the bot (socket down, or lost on the way).
LoseEvent ==
    /\ TaskAlive
    /\ batch # EmptyBatch
    /\ batch' = EmptyBatch
    /\ EnvStep
    /\ UNCHANGED <<xBook, xId, restBook, restId, connVars, bookVars>>


\* ------------------------------------------- OrderFlowAnalyzer: liquidity sweeps

\* config.LIQUIDITY_SWEEP_MIN_LEVELS
LIQUIDITY_SWEEP_MIN_LEVELS == 1
\* config.LIQUIDITY_SWEEP_TIME_MS
LIQUIDITY_SWEEP_TIME_MS == 1000
\* config.MIN_SWEEP_NOTIONAL
MIN_SWEEP_NOTIONAL == 5000
\* config.MIN_TRADE_CONFIRM_NOTIONAL
MIN_TRADE_CONFIRM_NOTIONAL == 1000
\* "lookback = current_time - 2"
CONFIRM_LOOKBACK == 2

\* None, where a sweep is expected
NoSweep == [direction |-> "none", levels_removed |-> 0, prices |-> {}]

\* A list of (price, qty) levels is a sequence of pairs, sorted by price.
\* The levels of book at the prices ps, with the size of one side
RECURSIVE LevelList(_, _, _)
LevelList(book, side, ps) ==
    IF ps = {} THEN <<>>
    ELSE LET p == Min(ps)
         IN  <<<<p, IF side = "bid" THEN book[p].bid ELSE book[p].ask>>>>
                 \o LevelList(book, side, ps \ {p})

\* Lines 229-240: the levels of one side that previous_book quotes and
\* order_book does not
RemovedLevels(book, prev, side) ==
    LET size(b, p) == IF side = "bid" THEN b[p].bid ELSE b[p].ask
    IN  LevelList(prev, side,
            {p \in DOMAIN prev : /\ p \notin DOMAIN book \/ size(book, p) = 0
                                 /\ size(prev, p) > 0})

\* "sorted(distances)": insertion of x into a sorted sequence, and the sort
RECURSIVE InsertSorted(_, _)
InsertSorted(x, sq) ==
    IF sq = <<>> THEN <<x>>
    ELSE IF x <= Head(sq) THEN <<x>> \o sq
    ELSE <<Head(sq)>> \o InsertSorted(x, Tail(sq))

RECURSIVE Sorted(_)
Sorted(sq) == IF sq = <<>> THEN <<>> ELSE InsertSorted(Head(sq), Sorted(Tail(sq)))

\* Lines 324-338: the groups of levels no more than threshold apart, from
\* level i on, current being the group under construction
RECURSIVE AdjacentGroups(_, _, _, _)
AdjacentGroups(levels, i, current, threshold) ==
    LET keep(g) == IF Len(g) >= LIQUIDITY_SWEEP_MIN_LEVELS THEN <<g>> ELSE <<>>
    IN  IF i > Len(levels) THEN keep(current)
        ELSE IF Abs(levels[i][1] - levels[i - 1][1]) <= threshold
        THEN AdjacentGroups(levels, i + 1, Append(current, levels[i]), threshold)
        ELSE keep(current) \o AdjacentGroups(levels, i + 1, <<levels[i]>>, threshold)

\* "max(groups, key=len)": the first of the longest groups
RECURSIVE LongestGroup(_, _, _)
LongestGroup(groups, i, best) ==
    IF i > Len(groups) THEN best
    ELSE LongestGroup(groups, i + 1, IF Len(groups[i]) > Len(best) THEN groups[i] ELSE best)

\* _find_largest_adjacent_group
find_largest_adjacent_group(levels) ==
    IF Len(levels) < 2 THEN levels
    ELSE LET distances == [i \in 1 .. Len(levels) - 1 |->
                              Abs(levels[i + 1][1] - levels[i][1])]
             median_dist == Sorted(distances)[(Len(distances) \div 2) + 1]
             groups == AdjacentGroups(levels, 2, <<levels[1]>>, median_dist * 2)
         IN  IF groups = <<>> THEN <<>> ELSE LongestGroup(groups, 2, groups[1])

\* "sum(price * qty for ...)", sizes in 1 / SizeDivisor
RECURSIVE Notional(_)
Notional(levels) ==
    IF levels = <<>> THEN 0 ELSE levels[1][1] * levels[1][2] + Notional(Tail(levels))

\* _confirm_sweep_with_trades as a bug would have it: any trade in the zone counts
confirm_sweep_any_side(trades, price_min, price_max, direction, t) ==
    LET relevant == SelectSeq(trades, LAMBDA tr :
                        /\ t - CONFIRM_LOOKBACK <= tr.timestamp /\ tr.timestamp <= t
                        /\ price_min <= tr.price /\ tr.price <= price_max)
        sizes == [i \in 1 .. Len(relevant) |-> <<relevant[i].price, relevant[i].size>>]
    IN  /\ relevant # <<>>
        /\ Notional(sizes) >= MIN_TRADE_CONFIRM_NOTIONAL * SizeDivisor

\* _confirm_sweep_with_trades at time t
confirm_sweep_with_trades(trades, price_min, price_max, direction, t) ==
    LET relevant == SelectSeq(trades, LAMBDA tr :
                        /\ t - CONFIRM_LOOKBACK <= tr.timestamp /\ tr.timestamp <= t
                        /\ price_min <= tr.price /\ tr.price <= price_max)
        expected_side == IF direction = "down" THEN "sell" ELSE "buy"
        matching == SelectSeq(relevant, LAMBDA tr : tr.side = expected_side)
        sizes == [i \in 1 .. Len(matching) |-> <<matching[i].price, matching[i].size>>]
    IN  /\ relevant # <<>>
        /\ matching # <<>>
        /\ Notional(sizes) >= MIN_TRADE_CONFIRM_NOTIONAL * SizeDivisor

\* _process_sweep at time t
process_sweep(removed_levels, direction, trades, t) ==
    LET adjacent_group == find_largest_adjacent_group(removed_levels)
        sweep_prices == {adjacent_group[i][1] : i \in 1 .. Len(adjacent_group)}
    IN  IF removed_levels = <<>> THEN NoSweep
        ELSE IF Len(adjacent_group) < LIQUIDITY_SWEEP_MIN_LEVELS THEN NoSweep
        ELSE IF Notional(adjacent_group) < MIN_SWEEP_NOTIONAL * SizeDivisor THEN NoSweep
        ELSE IF ~confirm_sweep_with_trades(trades, Min(sweep_prices), Max(sweep_prices),
                                           direction, t)
        THEN NoSweep
        ELSE [direction |-> direction, levels_removed |-> Len(adjacent_group),
              prices |-> sweep_prices]

\* detect_liquidity_sweep at time t (in seconds): a = [order_book,
\* previous_book, is_snapshot_loaded, book_snapshot_time, recent_trades_for_sweep]
detect_liquidity_sweep(a, t) ==
    LET removed_bids == RemovedLevels(a.order_book, a.previous_book, "bid")
        removed_asks == RemovedLevels(a.order_book, a.previous_book, "ask")
        down == IF Len(removed_bids) >= LIQUIDITY_SWEEP_MIN_LEVELS
                THEN process_sweep(removed_bids, "down", a.recent_trades_for_sweep, t)
                ELSE NoSweep
        up == IF Len(removed_asks) >= LIQUIDITY_SWEEP_MIN_LEVELS
              THEN process_sweep(removed_asks, "up", a.recent_trades_for_sweep, t)
              ELSE NoSweep
    IN  IF a.previous_book = EmptyBook \/ a.order_book = EmptyBook \/ ~a.is_snapshot_loaded
        THEN NoSweep
        ELSE IF (t - a.book_snapshot_time) * 1000 > LIQUIDITY_SWEEP_TIME_MS THEN NoSweep
        ELSE IF down # NoSweep THEN down
        ELSE up


\* ------------------------------------------------------------ SignalGenerator

\* Time is counted in seconds and one handler reads one time: it runs without
\* an await, within microseconds. Sizes and deltas are integers; an ATR is
\* counted in units of 1e-5 (0 for "not known yet").

\* config.COOLDOWN_SECONDS
COOLDOWN_SECONDS == 5
\* "current_time - self.sweep_time > 10"
SWEEP_MAX_AGE == 10
\* "current_time - self.sweep_time > 5"
FLIP_CLEAR_AFTER == 5

\* None, where a signal is expected
NoSignal == [type |-> "none"]
\* The reasons check_regime_filter gives
FilterReasons == {"extreme_volatility", "book_not_synced"}

\* _reset_state's current_state, also __init__'s
ResetState == [sweep_detected |-> FALSE, absorption_detected |-> FALSE,
               delta_flip |-> "none", price_reclaim |-> FALSE]

\* "max(0.5, min(vol_factor, 2.0))" with vol_factor = atr / 0.0003, times 30
VolFactor30(atr) == IF atr < 15 THEN 15 ELSE IF atr > 60 THEN 60 ELSE atr

\* min_flip (lines 81-84), times 30
MinFlip30(ms) == MIN_DELTA_FLIP * (IF ms.atr # 0 THEN VolFactor30(ms.atr) ELSE 30)

\* "x > min_flip"
ExceedsMinFlip(x, ms) == 30 * x > MinFlip30(ms)

\* Lines 77-96: the delta flip, once delta_history holds two values
DetectFlip(g, ms, t) ==
    LET cur == ms.normalized_delta
        prev == g.previous_delta
    IN  IF ExceedsMinFlip(Abs(cur - prev), ms)
        THEN IF ExceedsMinFlip(-prev, ms) /\ ExceedsMinFlip(cur, ms)
             THEN [g EXCEPT !.current_state.delta_flip = "bullish"]
             ELSE IF ExceedsMinFlip(prev, ms) /\ ExceedsMinFlip(-cur, ms)
             THEN [g EXCEPT !.current_state.delta_flip = "bearish"]
             ELSE g
        ELSE IF t - g.sweep_time > FLIP_CLEAR_AFTER
             THEN [g EXCEPT !.current_state.delta_flip = "none"]
             ELSE g

\* The sweep tracking as a bug would have it: a stored sweep never expires
TrackSweepNoExpiry(g, ms, t) ==
    IF ms.liquidity_sweep # NoSweep
    THEN [g EXCEPT !.recent_sweep = ms.liquidity_sweep, !.sweep_time = t,
                   !.current_state.sweep_detected = TRUE]
    ELSE g

\* Lines 52-63: "Track liquidity sweep"
TrackSweep(g, ms, t) ==
    IF ms.liquidity_sweep # NoSweep
    THEN [g EXCEPT !.recent_sweep = ms.liquidity_sweep, !.sweep_time = t,
                   !.current_state.sweep_detected = TRUE]
    ELSE IF g.recent_sweep # NoSweep /\ t - g.sweep_time > SWEEP_MAX_AGE
    THEN [g EXCEPT !.recent_sweep = NoSweep, !.current_state.sweep_detected = FALSE]
    ELSE g

\* PriceReclaimed as a bug would have it: the price has to leave the swept zone
PriceReclaimedBeyondZone(sweep, price) ==
    \/ sweep.direction = "down" /\ sweep.prices # {} /\ price > Max(sweep.prices)
    \/ sweep.direction = "up" /\ sweep.prices # {} /\ price < Min(sweep.prices)

\* Lines 100-112: "Check price reclaim if we have a sweep"
PriceReclaimed(sweep, price) ==
    \/ sweep.direction = "down" /\ sweep.prices # {} /\ price > Min(sweep.prices)
    \/ sweep.direction = "up" /\ sweep.prices # {} /\ price < Max(sweep.prices)

TrackReclaim(g, ms) ==
    IF g.recent_sweep # NoSweep /\ PriceReclaimed(g.recent_sweep, ms.price)
    THEN [g EXCEPT !.current_state.price_reclaim = TRUE]
    ELSE g

\* update_state at time t
update_state(g, ms, t) ==
    LET g1 == TrackSweep(g, ms, t)
        g2 == [g1 EXCEPT !.current_state.absorption_detected = ms.absorption]
        n == IF g.delta_history_len >= 2 THEN 2 ELSE g.delta_history_len + 1
        g3 == IF n >= 2 THEN DetectFlip(g2, ms, t) ELSE g2
        g4 == [g3 EXCEPT !.previous_delta = ms.normalized_delta, !.delta_history_len = n]
    IN  TrackReclaim(g4, ms)

\* _record_filter as a bug would have it: the reason is not counted
record_filter_total_only(g, reason) ==
    [g EXCEPT !.signals_filtered = @ + 1]

\* _record_filter
record_filter(g, reason) ==
    [g EXCEPT !.signals_filtered = @ + 1,
              !.filter_reasons[reason] = @ + 1]

\* "return True, reason": the observer counts the rejection
Rejected(g, reason) ==
    [g |-> [g EXCEPT !.rejections[reason] = @ + 1], filtered |-> TRUE, reason |-> reason]

\* check_regime_filter as a bug would have it: the book's sync state is not asked
check_regime_filter_no_sync(g, ms) ==
    IF ms.volatility_state = "extreme"
    THEN Rejected(record_filter(g, "extreme_volatility"), "extreme_volatility")
    ELSE [g |-> g, filtered |-> FALSE, reason |-> "regime_approved"]

\* check_regime_filter: [g, filtered, reason]
check_regime_filter(g, ms) ==
    IF ms.volatility_state = "extreme"
    THEN Rejected(record_filter(g, "extreme_volatility"), "extreme_volatility")
    ELSE IF ~ms.is_synced
    THEN Rejected(record_filter(g, "book_not_synced"), "book_not_synced")
    ELSE [g |-> g, filtered |-> FALSE, reason |-> "regime_approved"]

\* The emission as a bug would have it: the stored sweep outlives the signal
EmitSignalKeepsSweep(g, signal, t) ==
    [g EXCEPT !.last_signal_time = t,
              !.signal_history = Append(@, signal),
              !.signals_generated = @ + 1,
              !.current_state = ResetState]

\* Lines 215-218 (and 259-262, 335-338, 379-382): the signal is emitted
EmitSignal(g, signal, t) ==
    [g EXCEPT !.last_signal_time = t,
              !.signal_history = Append(@, signal),
              !.signals_generated = @ + 1,
              !.recent_sweep = NoSweep,
              !.current_state = ResetState]

\* The cooldown test as a bug would have it: measured from the sweep, not the signal
InCooldownSinceSweep(g, t) == t - g.sweep_time < COOLDOWN_SECONDS

\* "time.time() - self.last_signal_time < config.COOLDOWN_SECONDS"
InCooldown(g, t) == t - g.last_signal_time < COOLDOWN_SECONDS

\* The with-sweep confidence as a bug would have it: the reclaim counts like the absorption
SweepConfidenceReclaim20(g, flip) ==
    (IF g.recent_sweep # NoSweep THEN 30 ELSE 0)
    + (IF g.current_state.delta_flip = flip THEN 40 ELSE 0)
    + (IF g.current_state.absorption_detected THEN 20 ELSE 0)
    + (IF g.current_state.price_reclaim THEN 20 ELSE 0)

\* The confidence of a with-sweep signal (lines 184-201, 304-321)
SweepConfidence(g, flip) ==
    (IF g.recent_sweep # NoSweep THEN 30 ELSE 0)
    + (IF g.current_state.delta_flip = flip THEN 40 ELSE 0)
    + (IF g.current_state.absorption_detected THEN 20 ELSE 0)
    + (IF g.current_state.price_reclaim THEN 10 ELSE 0)

\* _generate_buy_signal_with_sweep: [g, signal]
generate_buy_signal_with_sweep(g, ms, t) ==
    LET confidence == SweepConfidence(g, "bullish")
        signal == [type |-> "BUY", price |-> ms.price, timestamp |-> t,
                   confidence |-> confidence, delta |-> ms.delta,
                   sweep_levels |-> g.recent_sweep.levels_removed,
                   volatility |-> ms.volatility_state]
    IN  IF confidence >= 70
        THEN [g |-> EmitSignal(g, signal, t), signal |-> signal]
        ELSE [g |-> g, signal |-> NoSignal]

\* _generate_buy_signal_no_sweep: [g, signal]
generate_buy_signal_no_sweep_flip40(g, ms, t) ==
    LET confidence == (IF g.current_state.delta_flip = "bullish" THEN 40 ELSE 0)
                      + (IF g.current_state.absorption_detected THEN 30 ELSE 0)
                      + (IF ms.delta > MIN_DELTA_FLIP * 3 THEN 20 ELSE 0)
        signal == [type |-> "BUY", price |-> ms.price, timestamp |-> t,
                   confidence |-> confidence, delta |-> ms.delta,
                   sweep_levels |-> 0, volatility |-> ms.volatility_state,
                   pattern |-> "no_sweep"]
    IN  IF confidence >= 60
        THEN [g |-> EmitSignal(g, signal, t), signal |-> signal]
        ELSE [g |-> g, signal |-> NoSignal]

generate_buy_signal_no_sweep(g, ms, t) ==
    LET confidence == (IF g.current_state.delta_flip = "bullish" THEN 50 ELSE 0)
                      + (IF g.current_state.absorption_detected THEN 30 ELSE 0)
                      + (IF ms.delta > MIN_DELTA_FLIP * 3 THEN 20 ELSE 0)
        signal == [type |-> "BUY", price |-> ms.price, timestamp |-> t,
                   confidence |-> confidence, delta |-> ms.delta,
                   sweep_levels |-> 0, volatility |-> ms.volatility_state,
                   pattern |-> "no_sweep"]
    IN  IF confidence >= 60
        THEN [g |-> EmitSignal(g, signal, t), signal |-> signal]
        ELSE [g |-> g, signal |-> NoSignal]

\* check_buy_signal as a bug would have it: the alternative path does not ask
\* for absorption
check_buy_signal_no_absorption(g, ms, t) ==
    IF InCooldown(g, t) THEN [g |-> g, signal |-> NoSignal]
    ELSE LET f == check_regime_filter(g, ms)
             cs == f.g.current_state
         IN  IF f.filtered THEN [g |-> f.g, signal |-> NoSignal]
             ELSE IF /\ f.g.recent_sweep # NoSweep
                     /\ f.g.recent_sweep.direction = "down"
                     /\ cs.delta_flip = "bullish"
             THEN generate_buy_signal_with_sweep(f.g, ms, t)
             ELSE IF /\ cs.delta_flip = "bullish"
                     /\ ms.delta > MIN_DELTA_FLIP * 2
             THEN generate_buy_signal_no_sweep(f.g, ms, t)
             ELSE [g |-> f.g, signal |-> NoSignal]

\* check_buy_signal: [g, signal]
check_buy_signal(g, ms, t) ==
    IF InCooldown(g, t) THEN [g |-> g, signal |-> NoSignal]
    ELSE LET f == check_regime_filter(g, ms)
             cs == f.g.current_state
         IN  IF f.filtered THEN [g |-> f.g, signal |-> NoSignal]
             ELSE IF /\ f.g.recent_sweep # NoSweep
                     /\ f.g.recent_sweep.direction = "down"
                     /\ cs.delta_flip = "bullish"
             THEN generate_buy_signal_with_sweep(f.g, ms, t)
             ELSE IF /\ cs.delta_flip = "bullish"
                     /\ cs.absorption_detected
                     /\ ms.delta > MIN_DELTA_FLIP * 2
             THEN generate_buy_signal_no_sweep(f.g, ms, t)
             ELSE [g |-> f.g, signal |-> NoSignal]

\* _generate_sell_signal_with_sweep: [g, signal]
generate_sell_signal_with_sweep(g, ms, t) ==
    LET confidence == SweepConfidence(g, "bearish")
        signal == [type |-> "SELL", price |-> ms.price, timestamp |-> t,
                   confidence |-> confidence, delta |-> ms.delta,
                   sweep_levels |-> g.recent_sweep.levels_removed,
                   volatility |-> ms.volatility_state]
    IN  IF confidence >= 70
        THEN [g |-> EmitSignal(g, signal, t), signal |-> signal]
        ELSE [g |-> g, signal |-> NoSignal]

\* _generate_sell_signal_no_sweep: [g, signal]
generate_sell_signal_no_sweep(g, ms, t) ==
    LET confidence == (IF g.current_state.delta_flip = "bearish" THEN 50 ELSE 0)
                      + (IF g.current_state.absorption_detected THEN 30 ELSE 0)
                      + (IF ms.delta < (-MIN_DELTA_FLIP) * 3 THEN 20 ELSE 0)
        signal == [type |-> "SELL", price |-> ms.price, timestamp |-> t,
                   confidence |-> confidence, delta |-> ms.delta,
                   sweep_levels |-> 0, volatility |-> ms.volatility_state,
                   pattern |-> "no_sweep"]
    IN  IF confidence >= 60
        THEN [g |-> EmitSignal(g, signal, t), signal |-> signal]
        ELSE [g |-> g, signal |-> NoSignal]

\* check_sell_signal as a bug would have it: any stored sweep opens the primary path
check_sell_signal_any_sweep(g, ms, t) ==
    IF InCooldown(g, t) THEN [g |-> g, signal |-> NoSignal]
    ELSE LET f == check_regime_filter(g, ms)
             cs == f.g.current_state
         IN  IF f.filtered THEN [g |-> f.g, signal |-> NoSignal]
             ELSE IF /\ f.g.recent_sweep # NoSweep
                     /\ cs.delta_flip = "bearish"
             THEN generate_sell_signal_with_sweep(f.g, ms, t)
             ELSE IF /\ cs.delta_flip = "bearish"
                     /\ cs.absorption_detected
                     /\ ms.delta < (-MIN_DELTA_FLIP) * 2
             THEN generate_sell_signal_no_sweep(f.g, ms, t)
             ELSE [g |-> f.g, signal |-> NoSignal]

\* check_sell_signal: [g, signal]
check_sell_signal(g, ms, t) ==
    IF InCooldown(g, t) THEN [g |-> g, signal |-> NoSignal]
    ELSE LET f == check_regime_filter(g, ms)
             cs == f.g.current_state
         IN  IF f.filtered THEN [g |-> f.g, signal |-> NoSignal]
             ELSE IF /\ f.g.recent_sweep # NoSweep
                     /\ f.g.recent_sweep.direction = "up"
                     /\ cs.delta_flip = "bearish"
             THEN generate_sell_signal_with_sweep(f.g, ms, t)
             ELSE IF /\ cs.delta_flip = "bearish"
                     /\ cs.absorption_detected
                     /\ ms.delta < (-MIN_DELTA_FLIP) * 2
             THEN generate_sell_signal_no_sweep(f.g, ms, t)
             ELSE [g |-> f.g, signal |-> NoSignal]

\* generate_signal: [g, signal]
generate_signal(g, ms, t) ==
    LET g1 == update_state(g, ms, t)
        buy == check_buy_signal(g1, ms, t)
    IN  IF buy.signal # NoSignal THEN buy ELSE check_sell_signal(buy.g, ms, t)


\* ------------------------------------------------------------------- the bot

\* BinanceConnector.__init__, OrderFlowAnalyzer.__init__, and
\* BinanceConnector.start up to the first await of connect_orderbook. The bot
\* starts inside a window of the depth stream: the exchange's last change (the
\* ask at BasePrice + 1, numbered BaseId) has not been sent yet.
InitSync ==
    /\ xBook = [p \in Prices |->
                   [bid |-> IF p = BasePrice THEN 1 ELSE 0,
                    ask |-> IF p = BasePrice + 1 THEN 1 ELSE 0]]
    /\ xId = BaseId
    /\ restBook = xBook
    /\ restId = xId
    /\ batch = [U |-> BaseId, b |-> NoChanges,
                 a |-> [NoChanges EXCEPT ![BasePrice + 1] = 1]]
    /\ last_update_id = 0
    /\ synced = FALSE
    /\ desync_count = 0
    /\ snapshot_pending = <<>>
    /\ running = TRUE
    /\ obPc = "fetch"
    /\ fetchCtx = "initial"
    /\ order_book = EmptyBook
    /\ previous_book = EmptyBook
    /\ is_snapshot_loaded = FALSE
    /\ current_price = 0
    /\ fwd = <<>>
    /\ appliedSinceSnap = FALSE
    /\ runLen = 0
    /\ lastEvent = NoEvent

\* SignalGenerator.__init__, with config.MIN_DELTA_FLIP = mdf
InitGenerator(mdf) ==
    /\ MIN_DELTA_FLIP = mdf
    /\ last_signal_time = 0
    /\ signal_history = <<>>
    /\ recent_sweep = NoSweep
    /\ sweep_time = 0
    /\ previous_delta = 0
    /\ delta_history_len = 0
    /\ current_state = ResetState
    /\ signals_generated = 0
    /\ signals_filtered = 0
    /\ filter_reasons = [r \in FilterReasons |-> 0]
    /\ rejections = [r \in FilterReasons |-> 0]

\* OrderFlowAnalyzer.__init__ (what sweep detection reads) and
\* ETHOrderFlowBot.__init__
InitFlow ==
    /\ now = StartTime
    /\ trade_count = 0
    /\ book_snapshot_time = 0
    /\ recent_trades_for_sweep = <<>>
    /\ bookBefore = EmptyBook
    /\ sweepReport = NoSweep
    /\ previousReport = NoSweep
    /\ bookUpdatesSeen = 0
    /\ price_history_last = 0
    /\ price_changes_len = 0
    /\ price_changes_sum = 0
    /\ oldest_change = 0
    /\ analyzer_atr = [set |-> FALSE, value |-> 0]
    /\ volatility_state = "unknown"
    /\ analyzer_trades = <<>>
    /\ lastAbsorption = [found |-> FALSE]
    /\ loopTask = "none"
    /\ bookPc = "recv"
    /\ tradePc = "recv"
    /\ bookData = [is_snapshot |-> FALSE, bids |-> <<>>, asks |-> <<>>]
    /\ observedPartial = FALSE
    /\ trPc = "connect"
    /\ trades_ws = "none"

Init == InitSync /\ InitFlow /\ InitGenerator(10)

Machine ==
    [last_update_id |-> last_update_id, synced |-> synced, desync_count |-> desync_count,
     order_book |-> order_book, previous_book |-> previous_book,
     is_snapshot_loaded |-> is_snapshot_loaded,
     fwd |-> <<>>, appliedSinceSnap |-> appliedSinceSnap, runLen |-> runLen,
     refetch |-> FALSE]

Commit(m) ==
    /\ last_update_id' = m.last_update_id
    /\ synced' = m.synced
    /\ desync_count' = m.desync_count
    /\ order_book' = m.order_book
    /\ previous_book' = m.previous_book
    /\ is_snapshot_loaded' = m.is_snapshot_loaded
    /\ fwd' = m.fwd
    /\ appliedSinceSnap' = m.appliedSinceSnap
    /\ runLen' = m.runLen

\* Where the order-book task goes when a fetch or a frame is done: the stream
\* loop, which ends once stop() has cleared running and closed the socket.
BackToLoop == IF running THEN "recv" ELSE "done"

\* FetchOk as a bug would have it: the buffer is left to be drained later, and
\* the stream loop goes on reading
FetchOkDrainLater ==
    /\ obPc = "fetch"
    /\ LET snap == SnapshotOf(restBook, restId)
           m == fetch_orderbook_snapshot(Machine, snap, <<>>, current_price)
       IN  /\ Commit(m)
           /\ snapshot_pending' = snapshot_pending
           /\ obPc' = BackToLoop
           /\ fetchCtx' = "none"
           /\ lastEvent' = Event("snapshot", 0, snap.lastUpdateId)
    /\ UNCHANGED <<envVars, running, current_price>>
    /\ UNCHANGED flowVars

\* connect_orderbook line 96 / 117, or _process_orderbook_update line 189: the
\* snapshot request is answered with HTTP 200.
FetchOk ==
    /\ obPc = "fetch"
    /\ LET snap == SnapshotOf(restBook, restId)
           m == fetch_orderbook_snapshot(Machine, snap, snapshot_pending, current_price)
       IN  /\ Commit(m)
           /\ snapshot_pending' = IF m.refetch THEN snapshot_pending ELSE <<>>
           /\ obPc' = IF m.refetch THEN "fetch" ELSE BackToLoop
           /\ fetchCtx' = IF m.refetch THEN fetchCtx ELSE "none"
           /\ lastEvent' = Event("snapshot", 0, snap.lastUpdateId)
    /\ UNCHANGED <<envVars, running, current_price>>
    /\ UNCHANGED flowVars

\* The snapshot request fails (lines 48-49, 78-80): the exception ends
\* connect_orderbook, unless process_orderbook (line 154) catches it.
FetchFail ==
    /\ obPc = "fetch"
    /\ obPc' = IF fetchCtx = "live" THEN BackToLoop ELSE "dead"
    /\ fetchCtx' = "none"
    /\ fwd' = <<>>
    /\ lastEvent' = Event("fetch_fail", 0, 0)
    /\ UNCHANGED <<envVars, last_update_id, synced, desync_count, snapshot_pending, running,
                   bookVars, appliedSinceSnap, runLen>>
    /\ UNCHANGED flowVars

\* connect_orderbook lines 104-109 and process_orderbook: the next depth event
\* of the stream is read and handled.
RecvDiff ==
    /\ obPc = "recv"
    /\ running
    /\ batch # EmptyBatch
    /\ LET d == EventOf(batch, xId)
       IN  /\ lastEvent' = Event("diff", d.U, d.u)
           /\ IF ~synced
              THEN /\ snapshot_pending' = Append(snapshot_pending, d)
                   /\ fwd' = <<>>
                   /\ UNCHANGED <<last_update_id, synced, desync_count, obPc, fetchCtx,
                                  order_book, previous_book, is_snapshot_loaded,
                                  appliedSinceSnap, runLen>>
              ELSE LET m == process_orderbook_update(Machine, d, current_price)
                   IN  /\ Commit(m)
                       /\ obPc' = IF m.refetch THEN "fetch" ELSE obPc
                       /\ fetchCtx' = IF m.refetch THEN "live" ELSE fetchCtx
                       /\ UNCHANGED snapshot_pending
    /\ batch' = EmptyBatch
    /\ UNCHANGED <<xBook, xId, restBook, restId, running, current_price>>
    /\ UNCHANGED flowVars

\* connect_orderbook lines 111-115: the socket fails (connecting or reading).
ConnError ==
    /\ obPc = "recv"
    /\ running
    /\ obPc' = "sleep"
    /\ fwd' = <<>>
    /\ lastEvent' = Event("conn_error", 0, 0)
    /\ UNCHANGED <<envVars, last_update_id, synced, desync_count, snapshot_pending, running,
                   fetchCtx, bookVars, appliedSinceSnap, runLen>>
    /\ UNCHANGED flowVars

\* connect_orderbook lines 115-117: the 5 s sleep is over, "Re-snapshot on
\* reconnect".
Wake ==
    /\ obPc = "sleep"
    /\ obPc' = "fetch"
    /\ fetchCtx' = "reconnect"
    /\ fwd' = <<>>
    /\ lastEvent' = Event("wake", 0, 0)
    /\ UNCHANGED <<envVars, last_update_id, synced, desync_count, snapshot_pending, running,
                   bookVars, appliedSinceSnap, runLen>>
    /\ UNCHANGED flowVars

\* BinanceConnector.stop
Stop ==
    /\ running
    /\ running' = FALSE
    /\ trades_ws' = IF trades_ws = "open" THEN "closed" ELSE trades_ws
    /\ fwd' = <<>>
    /\ lastEvent' = Event("stop", 0, 0)
    /\ UNCHANGED <<envVars, last_update_id, synced, desync_count, snapshot_pending, obPc,
                   fetchCtx, bookVars, appliedSinceSnap, runLen>>
    /\ UNCHANGED <<now, MIN_DELTA_FLIP, trade_count, genVars, sweepVars, regimeVars, absorptionVars,
                   taskVars, trPc>>

\* connect_orderbook lines 98, 105-106: the loop sees running false and ends.
LoopExit ==
    /\ obPc = "recv"
    /\ ~running
    /\ obPc' = "done"
    /\ fwd' = <<>>
    /\ lastEvent' = Event("exit", 0, 0)
    /\ UNCHANGED <<envVars, last_update_id, synced, desync_count, snapshot_pending, running,
                   fetchCtx, bookVars, appliedSinceSnap, runLen>>
    /\ UNCHANGED flowVars

\* The order-book stream while the bot runs
Next ==
    \/ ExchangeChange
    \/ RestRefresh
    \/ LoseEvent
    \/ FetchOk
    \/ FetchFail
    \/ RecvDiff
    \/ ConnError
    \/ Wake

Spec == Init /\ [][Next]_vars

\* The same with shutdown
NextStop ==
    \/ Next
    \/ Stop
    \/ LoopExit

SpecStop == Init /\ [][NextStop]_vars

\* What a malformed frame of the depth stream can be: text that is no JSON, a
\* JSON object without the 'b' or 'a' list, a diff with a price that is no number
MalformedKinds == {"undecodable", "no_levels", "bad_price"}

\* _process_orderbook_update lines 179-194 on a diff whose price float() cannot
\* read: the sequence check has counted or reset before the ValueError of line
\* 194 (or 195) ends the handling, ahead of the assignment of line 209
validate_then_raise(m, d) ==
    IF IsGap(m.last_update_id, d)
    THEN LET n == m.desync_count + 1
             m1 == [m EXCEPT !.runLen = IF m.runLen >= DESYNC_LIMIT THEN 1 ELSE m.runLen + 1]
         IN  IF n >= DESYNC_LIMIT
             THEN [m1 EXCEPT !.synced = FALSE, !.desync_count = 0, !.refetch = TRUE]
             ELSE [m1 EXCEPT !.desync_count = n]
    ELSE [m EXCEPT !.desync_count = ResetDesync(m.desync_count), !.runLen = 0]

\* connect_orderbook lines 104-117 and process_orderbook on a malformed frame,
\* read while Synced. json.loads (line 108) stands inside the try of line 99:
\* text it cannot decode ends the connection like a socket error. A frame
\* without 'b' or 'a' fails the test of line 146 and is passed over. A diff with
\* an unreadable price is validated, then dropped by the except of line 154.
RecvMalformed ==
    /\ obPc = "recv"
    /\ running
    /\ synced
    /\ \E kind \in MalformedKinds :
          /\ lastEvent' = Event(kind, 0, 0)
          /\ fwd' = <<>>
          /\ CASE kind = "undecodable" ->
                    /\ obPc' = "sleep"
                    /\ UNCHANGED <<batch, last_update_id, synced, desync_count, fetchCtx,
                                   runLen>>
               [] kind = "no_levels" ->
                    UNCHANGED <<batch, last_update_id, synced, desync_count, obPc, fetchCtx,
                                runLen>>
               [] kind = "bad_price" ->
                    /\ batch # EmptyBatch
                    /\ batch' = EmptyBatch
                    /\ LET m == validate_then_raise(Machine, EventOf(batch, xId))
                       IN  /\ synced' = m.synced
                           /\ desync_count' = m.desync_count
                           /\ runLen' = m.runLen
                           /\ obPc' = IF m.refetch THEN "fetch" ELSE obPc
                           /\ fetchCtx' = IF m.refetch THEN "live" ELSE fetchCtx
                    /\ UNCHANGED last_update_id
    /\ UNCHANGED <<xBook, xId, restBook, restId, snapshot_pending, running, bookVars,
                   appliedSinceSnap>>
    /\ UNCHANGED flowVars

\* The order-book stream with malformed frames among the depth events
NextFrames ==
    \/ Next
    \/ RecvMalformed

SpecFrames == Init /\ [][NextFrames]_vars


\* ------------------------------------------------------ the trade tick: signals

\* The generator is followed on the market states the analyzer can hand it:
\* ETHOrderFlowBot.on_trade calls add_trade, get_market_state and
\* generate_signal for every trade.

\* Lowest price of the swept zone of scenario S4 (1998..2000)
ZoneMin == BasePrice - 2
\* The sweeps the analyzer reports here: S4's down-sweep, and an up-sweep
SweepReports ==
    {[direction |-> "down", levels_removed |-> 3, prices |-> ZoneMin .. BasePrice],
     [direction |-> "up", levels_removed |-> 2, prices |-> {ZoneMin, ZoneMin + 1}]}
\* Last-trade prices: the low end of the zones, and S4's 1999
TickPrices == {ZoneMin, ZoneMin + 1}
\* Normalized deltas
DeltaValues == {-60, 0, 60}
\* ATR values (1e-5): not known, calm, normal, extreme (S6: 1e-3)
AtrValues == {0, 5, 20, 100}
\* Seconds between two trades
TimeSteps == {0, 5, 11}

\* _update_regime: the volatility state for an ATR, old being the state so far
update_regime(atr, old) ==
    IF atr # 0
    THEN IF atr < 10 THEN "calm"
         ELSE IF atr < 30 THEN "normal"
         ELSE IF atr < 70 THEN "volatile"
         ELSE "extreme"
    ELSE old

\* calculate_delta's raw delta for a normalized one: equal without an ATR, else
\* larger in size (normalized = raw / (1 + |raw| * atr))
RawDelta(normalized, atr) ==
    IF atr = 0 \/ normalized = 0 THEN normalized
    ELSE IF normalized > 0 THEN normalized + 1 ELSE normalized - 1

\* get_market_state
MarketState(price, normalized, sweep, absorption, atr, old, loaded) ==
    [price |-> price, delta |-> RawDelta(normalized, atr), normalized_delta |-> normalized,
     liquidity_sweep |-> sweep, absorption |-> absorption,
     volatility_state |-> update_regime(atr, old), atr |-> atr, is_synced |-> loaded]

MarketStates ==
    {MarketState(price, normalized, sweep, absorption, atr, old, loaded) :
        price \in TickPrices, normalized \in DeltaValues,
        sweep \in SweepReports \cup {NoSweep}, absorption \in BOOLEAN,
        atr \in AtrValues, old \in {"unknown"}, loaded \in BOOLEAN}

GenMachine ==
    [last_signal_time |-> last_signal_time, signal_history |-> signal_history,
     recent_sweep |-> recent_sweep, sweep_time |-> sweep_time,
     previous_delta |-> previous_delta, delta_history_len |-> delta_history_len,
     current_state |-> current_state, signals_generated |-> signals_generated,
     signals_filtered |-> signals_filtered, filter_reasons |-> filter_reasons,
     rejections |-> rejections]

CommitGen(g) ==
    /\ last_signal_time' = g.last_signal_time
    /\ signal_history' = g.signal_history
    /\ recent_sweep' = g.recent_sweep
    /\ sweep_time' = g.sweep_time
    /\ previous_delta' = g.previous_delta
    /\ delta_history_len' = g.delta_history_len
    /\ current_state' = g.current_state
    /\ signals_generated' = g.signals_generated
    /\ signals_filtered' = g.signals_filtered
    /\ filter_reasons' = g.filter_reasons
    /\ rejections' = g.rejections

\* ETHOrderFlowBot.on_trade, dt seconds after the last trade: the trade is
\* counted, its price becomes current_price, and the market state goes to
\* generate_signal.
SignalTick ==
    /\ trade_count < MaxTrades
    /\ \E dt \in TimeSteps, ms \in MarketStates :
          /\ now + dt <= MaxTime
          /\ now' = now + dt
          /\ current_price' = ms.price
          /\ CommitGen(generate_signal(GenMachine, ms, now + dt).g)
    /\ trade_count' = trade_count + 1
    /\ UNCHANGED <<envVars, connVars, tradesVars, order_book, previous_book, is_snapshot_loaded,
                   histVars, MIN_DELTA_FLIP, sweepVars, regimeVars, absorptionVars, taskVars>>

\* config.MIN_DELTA_FLIP as the repository sets it, and as the scenarios do
MinDeltaFlipChoices == {10, 30}

InitSignal == InitSync /\ InitFlow /\ \E mdf \in MinDeltaFlipChoices : InitGenerator(mdf)

NextSignal == SignalTick

SpecSignal == InitSignal /\ [][NextSignal]_vars


\* ------------------------------------------------------ the trade tick: sweeps

\* The analyzer between book updates and trades: update_orderbook stamps the
\* book, add_trade keeps the trade for the confirmation, and get_market_state
\* asks detect_liquidity_sweep. Sizes are in 1 / SizeDivisor of a coin. With at
\* most MaxTrades trades the analyzer has no ATR, no absorption (fewer than 10
\* trades) and a delta below MIN_DELTA_FLIP, so the generator's part of
\* on_trade is left to SignalTick.

SweepLadder == ZoneMin .. BasePrice + 1
BookSizes == {2, 5}
TradePrices == {ZoneMin + 1, BasePrice + 1}
TradeSizes == {1}
SweepTimeSteps == {0, 2}

\* The depth snapshot: three bids under one ask, every level of size sz
SnapshotData(sz) ==
    [is_snapshot |-> TRUE,
     bids |-> <<<<ZoneMin, sz>>, <<ZoneMin + 1, sz>>, <<BasePrice, sz>>>>,
     asks |-> <<<<BasePrice + 1, sz>>>>]

\* A run lo..hi of bid prices, each with size q, as data['bids'] lists them
RECURSIVE BidRun(_, _, _)
BidRun(lo, hi, q) == IF lo > hi THEN <<>> ELSE <<<<lo, q>>>> \o BidRun(lo + 1, hi, q)

\* The depth diffs: a run of bid levels set or removed, and at most one entry
\* for the ask level
DiffDatas ==
    {[is_snapshot |-> FALSE, bids |-> b, asks |-> a] :
        b \in {<<>>} \cup {BidRun(lo, hi, q) : lo \in SweepLadder, hi \in SweepLadder,
                                                q \in {0, Max(BookSizes)}},
        a \in {<<>>} \cup {<<<<BasePrice + 1, q>>>> : q \in {0, Min(BookSizes)}}}

\* on_orderbook_update at time now + dt: the first update is the snapshot
BookUpdate ==
    /\ bookUpdatesSeen < MaxBookUpdates
    /\ \E dt \in SweepTimeSteps :
        \E data \in {SnapshotData(sz) : sz \in BookSizes}
                      \cup (IF is_snapshot_loaded THEN DiffDatas ELSE {}) :
          LET an == update_orderbook([order_book |-> order_book,
                                      previous_book |-> previous_book,
                                      is_snapshot_loaded |-> is_snapshot_loaded],
                                     data, current_price)
          IN  /\ now + dt <= MaxTime
              /\ now' = now + dt
              /\ order_book' = an.order_book
              /\ previous_book' = an.previous_book
              /\ is_snapshot_loaded' = an.is_snapshot_loaded
              /\ book_snapshot_time' = now + dt
    /\ bookBefore' = order_book
    /\ sweepReport' = NoSweep
    /\ previousReport' = NoSweep
    /\ bookUpdatesSeen' = bookUpdatesSeen + 1
    /\ UNCHANGED <<envVars, connVars, tradesVars, current_price, histVars, MIN_DELTA_FLIP, trade_count,
                   genVars, recent_trades_for_sweep, regimeVars, absorptionVars, taskVars>>

\* on_trade with a sweep detection that reports a book update's sweep once
SweepTickReportsOnce ==
    /\ trade_count < MaxTrades
    /\ \E dt \in SweepTimeSteps, price \in TradePrices, size \in TradeSizes,
          side \in {"buy", "sell"} :
          LET trade == [timestamp |-> now + dt, price |-> price, size |-> size,
                        side |-> side]
              trades == Append(recent_trades_for_sweep, trade)
          IN  /\ now + dt <= MaxTime
              /\ now' = now + dt
              /\ recent_trades_for_sweep' = trades
              /\ current_price' = price
              /\ previousReport' = sweepReport
              /\ sweepReport' =
                     IF sweepReport # NoSweep THEN NoSweep
                     ELSE detect_liquidity_sweep(
                              [order_book |-> order_book, previous_book |-> previous_book,
                               is_snapshot_loaded |-> is_snapshot_loaded,
                               book_snapshot_time |-> book_snapshot_time,
                               recent_trades_for_sweep |-> trades], now + dt)
    /\ trade_count' = trade_count + 1
    /\ UNCHANGED <<envVars, connVars, tradesVars, order_book, previous_book, is_snapshot_loaded,
                   histVars, MIN_DELTA_FLIP, genVars, book_snapshot_time, bookBefore,
                   bookUpdatesSeen, regimeVars, absorptionVars, taskVars>>

\* on_trade at time now + dt, as far as get_market_state's liquidity_sweep
SweepTick ==
    /\ trade_count < MaxTrades
    /\ \E dt \in SweepTimeSteps, price \in TradePrices, size \in TradeSizes,
          side \in {"buy", "sell"} :
          LET trade == [timestamp |-> now + dt, price |-> price, size |-> size,
                        side |-> side]
              trades == Append(recent_trades_for_sweep, trade)
          IN  /\ now + dt <= MaxTime
              /\ now' = now + dt
              /\ recent_trades_for_sweep' = trades
              /\ current_price' = price
              /\ previousReport' = sweepReport
              /\ sweepReport' = detect_liquidity_sweep(
                     [order_book |-> order_book, previous_book |-> previous_book,
                      is_snapshot_loaded |-> is_snapshot_loaded,
                      book_snapshot_time |-> book_snapshot_time,
                      recent_trades_for_sweep |-> trades], now + dt)
    /\ trade_count' = trade_count + 1
    /\ UNCHANGED <<envVars, connVars, tradesVars, order_book, previous_book, is_snapshot_loaded,
                   histVars, MIN_DELTA_FLIP, genVars, book_snapshot_time, bookBefore,
                   bookUpdatesSeen, regimeVars, absorptionVars, taskVars>>

NextSweep == BookUpdate \/ SweepTick

SpecSweep == Init /\ [][NextSweep]_vars

\* ---------------------------------------------- the trade tick: volatility regime

\* OrderFlowAnalyzer.add_trade is followed on a price that stays or jumps
\* between two values; price_changes is kept as its length and its sum, the
\* ratios |delta p| / p being written over the common denominator
\* PriceDenominator. The run ends before the deque (maxlen 100) drops an entry.
RegimePrices == {BasePrice, BasePrice + 2}
PriceDenominator == BasePrice * (BasePrice + 2)

\* "abs(self.current_price - prev_price) / prev_price", times PriceDenominator
PriceChange(prev, price) == Abs(price - prev) * (PriceDenominator \div prev)

\* floor(r / den * 10^digits) added to q * 10^digits, digit by digit
RECURSIVE LongDivision(_, _, _, _)
LongDivision(q, r, den, digits) ==
    IF digits = 0 THEN q
    ELSE LongDivision(10 * q + (10 * r) \div den, (10 * r) % den, den, digits - 1)

\* "statistics.mean(self.price_changes)" in units of 1e-5, rounded down: the
\* thresholds of _update_regime are whole numbers of that unit, and no mean of
\* a run this short lies between 0 and 1e-5
MeanPriceChange(sum, len) ==
    LET den == PriceDenominator * len
    IN  LongDivision(sum \div den, sum % den, den, 5)

\* add_trade with the mean taken over the newest ATR_MIN_CHANGES changes only
RegimeTradeLastTwenty ==
    /\ trade_count < MaxRegimeTrades
    /\ \E price \in RegimePrices :
          LET changed == price_history_last # 0
              len == IF changed THEN price_changes_len + 1 ELSE price_changes_len
              sum == IF changed
                     THEN price_changes_sum + PriceChange(price_history_last, price)
                     ELSE price_changes_sum
              newest == IF len > ATR_MIN_CHANGES THEN sum - oldest_change ELSE sum
              a == IF len >= ATR_MIN_CHANGES
                   THEN [set |-> TRUE, value |-> MeanPriceChange(newest, ATR_MIN_CHANGES)]
                   ELSE analyzer_atr
          IN  /\ current_price' = price
              /\ price_history_last' = price
              /\ price_changes_len' = len
              /\ price_changes_sum' = sum
              /\ oldest_change' = IF changed /\ price_changes_len = 0
                                  THEN PriceChange(price_history_last, price)
                                  ELSE oldest_change
              /\ analyzer_atr' = a
              /\ volatility_state' =
                     update_regime(IF a.set THEN a.value ELSE 0, volatility_state)
    /\ trade_count' = trade_count + 1
    /\ UNCHANGED <<envVars, connVars, tradesVars, order_book, previous_book, is_snapshot_loaded,
                   histVars, now, MIN_DELTA_FLIP, genVars, sweepVars, absorptionVars,
                   taskVars>>

\* add_trade lines 105-142 for a trade at the given price, as far as the
\* volatility regime goes
RegimeTrade ==
    /\ trade_count < MaxRegimeTrades
    /\ \E price \in RegimePrices :
          LET changed == price_history_last # 0
              len == IF changed THEN price_changes_len + 1 ELSE price_changes_len
              sum == IF changed
                     THEN price_changes_sum + PriceChange(price_history_last, price)
                     ELSE price_changes_sum
              a == IF len >= ATR_MIN_CHANGES
                   THEN [set |-> TRUE, value |-> MeanPriceChange(sum, len)]
                   ELSE analyzer_atr
          IN  /\ current_price' = price
              /\ price_history_last' = price
              /\ price_changes_len' = len
              /\ price_changes_sum' = sum
              /\ oldest_change' = IF changed /\ price_changes_len = 0
                                  THEN PriceChange(price_history_last, price)
                                  ELSE oldest_change
              /\ analyzer_atr' = a
              /\ volatility_state' =
                     update_regime(IF a.set THEN a.value ELSE 0, volatility_state)
    /\ trade_count' = trade_count + 1
    /\ UNCHANGED <<envVars, connVars, tradesVars, order_book, previous_book, is_snapshot_loaded,
                   histVars, now, MIN_DELTA_FLIP, genVars, sweepVars, absorptionVars,
                   taskVars>>

NextRegime == RegimeTrade

SpecRegime == Init /\ [][NextRegime]_vars

\* ------------------------------------------------ the trade tick: absorption

\* Number of trades followed for the absorption. Below ATR_MIN_CHANGES + 1
\* trades the analyzer has no ATR.
MaxAbsorptionTrades == 10

\* config.TRADE_HISTORY_SECONDS
TRADE_HISTORY_SECONDS == 60
\* "window = 10  # 10 second window"
ABSORPTION_WINDOW == 10
\* "if len(self.trades) < 10"
ABSORPTION_MIN_TRADES == 10
\* config.MIN_ABSORPTION_RATIO
MIN_ABSORPTION_RATIO == 1
\* "_get_depth_at_side(absorbing_side, 10)"
ABSORPTION_DEPTH_LEVELS == 10

\* Seconds between two trades: at once, or after the window has passed
AbsorptionTimeSteps == {0, ABSORPTION_WINDOW + 1}
\* Sizes in 1 / SizeDivisor of a coin, as in the book
AbsorptionTradeSize == 6
AbsorptionBookSizes == {2, 5}

NoAbsorption == [found |-> FALSE]

\* the trades from the i-th on that are later than cutoff, in order
RECURSIVE TradesAfter(_, _, _)
TradesAfter(trades, i, cutoff) ==
    IF i > Len(trades) THEN <<>>
    ELSE (IF trades[i].timestamp > cutoff THEN <<trades[i]>> ELSE <<>>)
             \o TradesAfter(trades, i + 1, cutoff)

\* _clean_old_data, the trades: "while self.trades and
\* self.trades[0]['timestamp'] / 1000 < cutoff_time: self.trades.popleft()"
RECURSIVE clean_old_data(_, _)
clean_old_data(trades, t) ==
    IF trades # <<>> /\ trades[1].timestamp < t - TRADE_HISTORY_SECONDS
    THEN clean_old_data(Tail(trades), t)
    ELSE trades

\* "[t for t in self.trades if t['timestamp'] / 1000 > current_time - window]"
RecentTrades(trades, t) == TradesAfter(trades, 1, t - ABSORPTION_WINDOW)

\* "sum(t['size'] for t in recent_trades if t['side'] == ...)", from the i-th on
RECURSIVE SumSizes(_, _, _)
SumSizes(trades, i, sides) ==
    IF i > Len(trades) THEN 0
    ELSE (IF trades[i].side \in sides THEN trades[i].size ELSE 0)
             + SumSizes(trades, i + 1, sides)

\* the n largest members of a set of prices
RECURSIVE Highest(_, _)
Highest(S, n) ==
    IF n = 0 \/ S = {} THEN {} ELSE {Max(S)} \cup Highest(S \ {Max(S)}, n - 1)

\* the n smallest members of a set of prices
RECURSIVE Lowest(_, _)
Lowest(S, n) ==
    IF n = 0 \/ S = {} THEN {} ELSE {Min(S)} \cup Lowest(S \ {Min(S)}, n - 1)

RECURSIVE SumSide(_, _, _)
SumSide(book, side, S) ==
    IF S = {} THEN 0
    ELSE LET p == CHOOSE q \in S : TRUE
         IN  book[p][side] + SumSide(book, side, S \ {p})

\* _get_depth_at_side: the best num_levels quoted levels of a side
get_depth_at_side(book, side, num_levels) ==
    LET quoted == {p \in DOMAIN book : book[p][side] > 0}
    IN  SumSide(book, side, IF side = "bid" THEN Highest(quoted, num_levels)
                                            ELSE Lowest(quoted, num_levels))

\* "price_range_pct > max_movement": PRICE_MOVEMENT_THRESHOLD = 0.0005, times
\* min(atr / 0.0001, 3.0) when self.atr is neither None nor 0.0 (atr.value in
\* units of 1e-5)
TooMuchMovement(prices, atr) ==
    LET range == Max(prices) - Min(prices)
    IN  IF atr.set /\ atr.value # 0
        THEN range * 100000 > 5 * Min(prices) * Min({atr.value, 30})
        ELSE range * 10000 > 5 * Min(prices)

\* detect_absorption lines 377-439 at time t: a = [trades, order_book, atr]
detect_absorption(a, t) ==
    IF Len(a.trades) < ABSORPTION_MIN_TRADES THEN NoAbsorption
    ELSE
    LET recent_trades == RecentTrades(a.trades, t)
        prices == {recent_trades[i].price : i \in DOMAIN recent_trades}
        buy_vol == SumSizes(recent_trades, 1, {"buy"})
        sell_vol == SumSizes(recent_trades, 1, {"sell"})
        absorbing_side == IF buy_vol > sell_vol THEN "ask" ELSE "bid"
        aggressive_vol == Max({buy_vol, sell_vol})
        available_depth == get_depth_at_side(a.order_book, absorbing_side,
                                             ABSORPTION_DEPTH_LEVELS)
    IN  IF recent_trades = <<>> THEN NoAbsorption
        ELSE IF TooMuchMovement(prices, a.atr) THEN NoAbsorption
        ELSE IF available_depth = 0 THEN NoAbsorption
        ELSE IF aggressive_vol < MIN_ABSORPTION_RATIO * available_depth THEN NoAbsorption
        ELSE [found |-> TRUE,
              volume |-> SumSizes(recent_trades, 1, {"buy", "sell"}),
              absorbing_side |-> absorbing_side,
              aggressive_vol |-> aggressive_vol,
              available_depth |-> available_depth]

\* on_orderbook_update with the depth snapshot, before the first trade
AbsorptionBook ==
    /\ ~is_snapshot_loaded
    /\ trade_count = 0
    /\ \E sz \in AbsorptionBookSizes :
          LET an == update_orderbook([order_book |-> order_book,
                                      previous_book |-> previous_book,
                                      is_snapshot_loaded |-> is_snapshot_loaded],
                                     SnapshotData(sz), current_price)
          IN  /\ order_book' = an.order_book
              /\ previous_book' = an.previous_book
              /\ is_snapshot_loaded' = an.is_snapshot_loaded
    /\ UNCHANGED <<envVars, connVars, tradesVars, current_price, histVars, now,
                   MIN_DELTA_FLIP, trade_count, genVars, sweepVars, regimeVars,
                   absorptionVars, taskVars>>

\* on_trade at time now + dt, as far as get_market_state's absorption: add_trade
\* appends and cleans, detect_absorption reads
AbsorptionTick ==
    /\ trade_count < MaxAbsorptionTrades
    /\ \E dt \in AbsorptionTimeSteps, side \in {"buy", "sell"} :
          LET trade == [timestamp |-> now + dt, price |-> BasePrice,
                        size |-> AbsorptionTradeSize, side |-> side]
              trades == clean_old_data(Append(analyzer_trades, trade), now + dt)
          IN  /\ now' = now + dt
              /\ analyzer_trades' = trades
              /\ current_price' = BasePrice
              /\ lastAbsorption' = detect_absorption(
                     [trades |-> trades, order_book |-> order_book,
                      atr |-> analyzer_atr], now + dt)
    /\ trade_count' = trade_count + 1
    /\ UNCHANGED <<envVars, connVars, tradesVars, order_book, previous_book,
                   is_snapshot_loaded, histVars, MIN_DELTA_FLIP, genVars, sweepVars,
                   regimeVars, taskVars>>

NextAbsorption == AbsorptionBook \/ AbsorptionTick

SpecAbsorption == Init /\ [][NextAbsorption]_vars

\* ------------------------------------------------- the two tasks of the event loop

\* BinanceConnector.start gathers connect_orderbook and connect_trades on one
\* asyncio event loop. A task gives the loop away only where it suspends, and
\* neither on_orderbook_update nor on_trade holds an await: each handler is
\* followed here statement by statement, loopTask being the task that is
\* between the frame it read and its next suspension.

\* The loop's scheduling as a bug would have it: tasks preempt each other like threads
RunnablePreemptive(task) == TRUE

\* The event loop runs a step of the task when no other task is inside a handler
Runnable(task) == loopTask \in {"none", task}

\* on_orderbook_update, update_orderbook lines 65-83: the book is rebuilt or
\* copied, stamped, and the bids of the update are applied
BookBids ==
    /\ Runnable("orderbook")
    /\ bookPc = "recv"
    /\ bookUpdatesSeen < MaxBookUpdates
    /\ \E data \in {SnapshotData(sz) : sz \in BookSizes}
                     \cup (IF is_snapshot_loaded THEN DiffDatas ELSE {}) :
          LET an == update_orderbook([order_book |-> order_book,
                                      previous_book |-> previous_book,
                                      is_snapshot_loaded |-> is_snapshot_loaded],
                                     [data EXCEPT !.asks = <<>>], current_price)
          IN  /\ order_book' = an.order_book
              /\ previous_book' = an.previous_book
              /\ is_snapshot_loaded' = an.is_snapshot_loaded
              /\ bookData' = data
    /\ book_snapshot_time' = now
    /\ bookBefore' = order_book
    /\ bookPc' = "asks"
    /\ loopTask' = "orderbook"
    /\ UNCHANGED <<envVars, connVars, tradesVars, current_price, histVars, now, MIN_DELTA_FLIP,
                   trade_count, genVars, recent_trades_for_sweep, sweepReport, previousReport,
                   bookUpdatesSeen, regimeVars, absorptionVars, tradePc, observedPartial>>

\* update_orderbook lines 85-103 and the return of on_orderbook_update: the
\* asks are applied, the book is trimmed, the task suspends in its next read
BookAsks ==
    /\ Runnable("orderbook")
    /\ bookPc = "asks"
    /\ LET an == update_orderbook([order_book |-> bookBefore,
                                   previous_book |-> previous_book,
                                   is_snapshot_loaded |-> is_snapshot_loaded],
                                  bookData, current_price)
       IN  /\ order_book' = an.order_book
           /\ previous_book' = an.previous_book
           /\ is_snapshot_loaded' = an.is_snapshot_loaded
    /\ bookUpdatesSeen' = bookUpdatesSeen + 1
    /\ bookPc' = "recv"
    /\ loopTask' = "none"
    /\ UNCHANGED <<envVars, connVars, tradesVars, current_price, histVars, now, MIN_DELTA_FLIP,
                   trade_count, genVars, book_snapshot_time, recent_trades_for_sweep,
                   bookBefore, sweepReport, previousReport, regimeVars, absorptionVars, tradePc, bookData,
                   observedPartial>>

\* on_trade lines 88-89: the trade is counted and add_trade keeps it
TradeAdd ==
    /\ Runnable("trades")
    /\ tradePc = "recv"
    /\ trade_count < MaxTrades
    /\ \E dt \in SweepTimeSteps, price \in TradePrices, size \in TradeSizes,
          side \in {"buy", "sell"} :
          /\ now + dt <= MaxTime
          /\ now' = now + dt
          /\ recent_trades_for_sweep' =
                 Append(recent_trades_for_sweep,
                        [timestamp |-> now + dt, price |-> price, size |-> size,
                         side |-> side])
          /\ current_price' = price
    /\ trade_count' = trade_count + 1
    /\ tradePc' = "state"
    /\ loopTask' = "trades"
    /\ UNCHANGED <<envVars, connVars, tradesVars, order_book, previous_book, is_snapshot_loaded,
                   histVars, MIN_DELTA_FLIP, genVars, book_snapshot_time, bookBefore,
                   sweepReport, previousReport, bookUpdatesSeen, regimeVars, absorptionVars, bookPc, bookData,
                   observedPartial>>

\* on_trade line 92: get_market_state reads the books for the sweep detection
TradeState ==
    /\ Runnable("trades")
    /\ tradePc = "state"
    /\ previousReport' = sweepReport
    /\ sweepReport' = detect_liquidity_sweep(
           [order_book |-> order_book, previous_book |-> previous_book,
            is_snapshot_loaded |-> is_snapshot_loaded,
            book_snapshot_time |-> book_snapshot_time,
            recent_trades_for_sweep |-> recent_trades_for_sweep], now)
    /\ observedPartial' = (bookPc = "asks")
    /\ tradePc' = "signal"
    /\ UNCHANGED <<envVars, connVars, tradesVars, bookVars, histVars, now, MIN_DELTA_FLIP, trade_count,
                   genVars, book_snapshot_time, recent_trades_for_sweep, bookBefore,
                   bookUpdatesSeen, regimeVars, absorptionVars, loopTask, bookPc, bookData>>

\* on_trade lines 93-115: generate_signal on the market state (after at most
\* MaxTrades trades: no ATR, no absorption, a delta below MIN_DELTA_FLIP), and
\* the task suspends in its next read
TradeSignal ==
    /\ Runnable("trades")
    /\ tradePc = "signal"
    /\ CommitGen(generate_signal(
           GenMachine,
           MarketState(current_price, 0, sweepReport, FALSE, 0, "unknown",
                       is_snapshot_loaded),
           now).g)
    /\ tradePc' = "recv"
    /\ loopTask' = "none"
    /\ UNCHANGED <<envVars, connVars, tradesVars, bookVars, histVars, now, MIN_DELTA_FLIP, trade_count,
                   sweepVars, regimeVars, absorptionVars, bookPc, bookData, observedPartial>>

NextTasks ==
    \/ BookBids
    \/ BookAsks
    \/ TradeAdd
    \/ TradeState
    \/ TradeSignal

SpecTasks == Init /\ [][NextTasks]_vars

\* ------------------------------------------------------------- the trades task

\* connect_trades is followed from one suspension to the next: it awaits the
\* connection ("connect"), a frame of the open socket ("recv") or the end of
\* the 5 s sleep ("sleep"). What on_trade does with a trade is followed by
\* SignalTick, SweepTick and the steps of the trades task above.

\* Line 125-127: the socket is connected and becomes trades_ws
TradesConnect ==
    /\ trPc = "connect"
    /\ trPc' = "recv"
    /\ trades_ws' = "open"
    /\ UNCHANGED <<envVars, connVars, bookVars, histVars, now, MIN_DELTA_FLIP, trade_count,
                   genVars, sweepVars, regimeVars, absorptionVars, taskVars>>

\* The frame handling as a bug would have it: the flag is not looked at
TradesFrameIgnoresFlag ==
    /\ trPc = "recv"
    /\ trades_ws = "open"
    /\ trade_count < MaxTrades
    /\ trade_count' = trade_count + 1
    /\ UNCHANGED <<trPc, trades_ws>>
    /\ UNCHANGED <<envVars, connVars, bookVars, histVars, now, MIN_DELTA_FLIP, genVars,
                   sweepVars, regimeVars, absorptionVars, taskVars>>

\* Lines 129-134: a frame is read from the open socket. With running cleared
\* the loop breaks, leaves the "async with" (the socket is closed) and ends at
\* the test of line 123; else the trade goes to process_trade.
TradesFrame ==
    /\ trPc = "recv"
    /\ trades_ws = "open"
    /\ IF running
       THEN /\ trade_count < MaxTrades
            /\ trade_count' = trade_count + 1
            /\ UNCHANGED <<trPc, trades_ws>>
       ELSE /\ trPc' = "done"
            /\ trades_ws' = "closed"
            /\ UNCHANGED trade_count
    /\ UNCHANGED <<envVars, connVars, bookVars, histVars, now, MIN_DELTA_FLIP, genVars,
                   sweepVars, regimeVars, absorptionVars, taskVars>>

\* Lines 136-140: connecting or reading fails. The task sleeps before it
\* reconnects, unless running is cleared: then the test of line 123 ends it.
TradesError ==
    /\ trPc \in {"connect", "recv"}
    /\ trPc' = IF running THEN "sleep" ELSE "done"
    /\ trades_ws' = IF trPc = "recv" THEN "closed" ELSE trades_ws
    /\ UNCHANGED <<envVars, connVars, bookVars, histVars, now, MIN_DELTA_FLIP, trade_count,
                   genVars, sweepVars, regimeVars, absorptionVars, taskVars>>

\* Lines 129, 123: the socket was closed, the iteration over its frames ends
TradesLoopExit ==
    /\ trPc = "recv"
    /\ trades_ws = "closed"
    /\ trPc' = IF running THEN "connect" ELSE "done"
    /\ UNCHANGED trades_ws
    /\ UNCHANGED <<envVars, connVars, bookVars, histVars, now, MIN_DELTA_FLIP, trade_count,
                   genVars, sweepVars, regimeVars, absorptionVars, taskVars>>

\* Lines 140, 123: the 5 s sleep is over and the loop tests running
TradesWake ==
    /\ trPc = "sleep"
    /\ trPc' = IF running THEN "connect" ELSE "done"
    /\ UNCHANGED trades_ws
    /\ UNCHANGED <<envVars, connVars, bookVars, histVars, now, MIN_DELTA_FLIP, trade_count,
                   genVars, sweepVars, regimeVars, absorptionVars, taskVars>>

\* Both stream tasks, with shutdown, on a quiet market: the depth stream sends
\* the one event that is waiting when the bot starts.
NextShutdown ==
    \/ FetchOk
    \/ FetchFail
    \/ RecvDiff
    \/ ConnError
    \/ Wake
    \/ Stop
    \/ LoopExit
    \/ TradesConnect
    \/ TradesFrame
    \/ TradesError
    \/ TradesLoopExit
    \/ TradesWake

\* The steps the order-book task is not kept from for ever: a snapshot request
\* is answered or fails (the HTTP client times out, and a recursion of
\* re-snapshots ends with an error), a sleep ends, a closed socket ends the
\* iteration over its frames
OrderbookProgress ==
    \/ FetchFail
    \/ Wake
    \/ LoopExit
    \/ FetchOk

\* The same for the trades task: a sleep ends, a closed socket ends the
\* iteration, a connection attempt succeeds or fails, and the trade stream
\* goes on delivering frames on a socket opened after stop()
TradesProgress ==
    \/ TradesWake
    \/ TradesLoopExit
    \/ trPc = "connect" /\ (TradesConnect \/ TradesError)
    \/ ~running /\ TradesFrame

\* The event loop resumes each task whose await is over
ShutdownFairness == WF_vars(OrderbookProgress) /\ WF_vars(TradesProgress)

SpecShutdown == Init /\ [][NextShutdown]_vars /\ ShutdownFairness


\* The order-book task on a connection that never fails: every snapshot
\* request is answered, every depth event reaches the bot, in order
NextSync ==
    \/ ExchangeChange
    \/ RestRefresh
    \/ FetchOk
    \/ RecvDiff

\* The snapshot request is answered and the socket delivers the waiting event
SyncFairness == WF_vars(RecvDiff \/ FetchOk)

SpecSync == Init /\ [][NextSync]_vars /\ SyncFairness


\* The depth stream delivers, as the first frame after a snapshot, an event
\* that ends one id below last_update_id: the REST answer was ahead of the
\* stream. process_orderbook treats it like every other frame.
StaleDiff ==
    [U |-> last_update_id - 1, u |-> last_update_id - 1,
     b |-> <<<<BasePrice, 1>>>>, a |-> <<>>]

RecvStale ==
    /\ obPc = "recv"
    /\ running
    /\ lastEvent.kind = "snapshot"
    /\ last_update_id > BaseId
    /\ LET d == StaleDiff
       IN  /\ lastEvent' = Event("diff", d.U, d.u)
           /\ IF ~synced
              THEN /\ snapshot_pending' = Append(snapshot_pending, d)
                   /\ fwd' = <<>>
                   /\ UNCHANGED <<last_update_id, synced, desync_count, obPc, fetchCtx,
                                  order_book, previous_book, is_snapshot_loaded,
                                  appliedSinceSnap, runLen>>
              ELSE LET m == process_orderbook_update(Machine, d, current_price)
                   IN  /\ Commit(m)
                       /\ obPc' = IF m.refetch THEN "fetch" ELSE obPc
                       /\ fetchCtx' = IF m.refetch THEN "live" ELSE fetchCtx
                       /\ UNCHANGED snapshot_pending
    /\ UNCHANGED <<envVars, running, current_price>>
    /\ UNCHANGED flowVars

\* The order-book task with reconnects, every snapshot request being answered
\* and no event being lost
NextStale ==
    \/ ExchangeChange
    \/ RestRefresh
    \/ FetchOk
    \/ RecvDiff
    \/ ConnError
    \/ Wake
    \/ RecvStale

SpecStale == Init /\ [][NextStale]_vars


\* ------------------------------------------------------------------ claims

\* The depth event the stream is about to deliver
NextEvent == EventOf(batch, xId)

\* The diffs among what the last step forwarded
FwdDiffs == SelectSeq(fwd, LAMBDA f : ~f.snap)

\* U <= S+1 <= u
Covers(S, d) == d.U <= S + 1 /\ S + 1 <= d.u

\* The (U, u) pairs of a sequence of diffs
Ids(ds) == [j \in 1 .. Len(ds) |-> <<ds[j].U, ds[j].u>>]

\* C1: every diff forwarded to the order-book callback has U equal to the u of
\* the previously applied diff plus 1, except the first diff applied after a
\* snapshot; and a diff whose U is not last_update_id + 1 while the connector is
\* Synced is never forwarded.
C1_ForwardedDiffsAreContiguous ==
    \A i \in 1 .. Len(fwd) :
        ~fwd[i].snap =>
            /\ fwd[i].first \/ fwd[i].U = fwd[i].exp
            /\ fwd[i].wasSynced => fwd[i].U = fwd[i].exp

\* C2: after a snapshot with id S was applied with an empty pending buffer, the
\* next live diff with U <= S+1 <= u is forwarded to the book, last_update_id
\* becomes its u and the connector is Synced.
C2_FirstLiveDiffAfterSnapshotSyncs ==
    [][(/\ RecvDiff
        /\ lastEvent.kind = "snapshot" /\ lastEvent.n = 0 /\ lastEvent.u = last_update_id
        /\ Covers(last_update_id, NextEvent))
       => (/\ synced'
           /\ last_update_id' = NextEvent.u
           /\ Len(fwd') = 1 /\ fwd'[1].U = NextEvent.U /\ fwd'[1].u = NextEvent.u)]_vars


\* The buffered diffs from the first one with U <= S+1 <= u on
FromFirstCovering(pending, S) ==
    LET i == Min({j \in 1 .. Len(pending) : Covers(S, pending[j])})
    IN  SubSeq(pending, i, Len(pending))

\* A snapshot arrives while diffs are buffered, one of them with U <= S+1 <= u
DrainStep ==
    /\ FetchOk
    /\ \E j \in 1 .. Len(snapshot_pending) : Covers(restId, snapshot_pending[j])

\* The drain forwarded exactly the diffs ds, in order, and ended Synced on the
\* last one with the buffer empty
DrainedAll(ds) ==
    /\ Ids(FwdDiffs') = Ids(ds)
    /\ last_update_id' = ds[Len(ds)].u
    /\ synced'
    /\ snapshot_pending' = <<>>

\* Do the diffs ds[j..], checked one after the other against lu + 1 (lu being
\* the u of the one before), contain three in a row that do not match?
RECURSIVE ThreeGapsInARow(_, _, _, _)
ThreeGapsInARow(ds, j, lu, cnt) ==
    IF j > Len(ds) THEN FALSE
    ELSE LET c == IF ds[j].U # lu + 1 THEN cnt + 1 ELSE 0
         IN  c >= 3 \/ ThreeGapsInARow(ds, j + 1, ds[j].u, c)

LiveDiffWhileSynced == RecvDiff /\ synced

\* The levels a REST answer quotes, as a book
QuotedBook(book) ==
    [p \in {q \in Prices : book[q].bid > 0 \/ book[q].ask > 0} |-> book[p]]

\* C4: while Synced each incoming diff with U # last_update_id + 1 increments
\* desync_count; on the third such diff in a row the connector leaves Synced
\* and requests a new snapshot, and the book is cleared and rebuilt from it.
C4_ThirdGapResyncs ==
    [][/\ (LiveDiffWhileSynced /\ NextEvent.U # last_update_id + 1) =>
            IF runLen = 2
            THEN ~synced' /\ obPc' = "fetch" /\ fwd' = <<>>
            ELSE synced' /\ desync_count' = desync_count + 1 /\ obPc' = "recv"
       /\ (FetchOk /\ fetchCtx = "live") =>
            /\ order_book' = QuotedBook(restBook)
            /\ last_update_id' = restId]_vars

\* C4 witness: the book rebuilt from the snapshot that the third gap in a row
\* asked for
C4_Witness ==
    /\ lastEvent.kind = "snapshot"
    /\ lastEvent.ctx = "live"
    /\ runLen = 3
    /\ order_book = QuotedBook(restBook)

\* C5: a diff with U = last_update_id + 1 processed while Synced resets
\* desync_count to 0, so a re-snapshot is only ever requested by the third
\* mismatching diff in a row.
C5_GoodSequenceResets ==
    [][/\ (LiveDiffWhileSynced /\ NextEvent.U = last_update_id + 1) =>
            desync_count' = 0 /\ synced' /\ obPc' = "recv"
       /\ ((RecvDiff \/ FetchOk) /\ obPc' = "fetch") => runLen' = 3]_vars

\* C5 witness: a matching diff arrived while desync_count was not 0 and reset it
C5_Witness ==
    /\ lastEvent.kind = "diff"
    /\ lastEvent.dc > 0
    /\ Len(fwd) = 1 /\ fwd[1].U = fwd[1].exp
    /\ synced
    /\ desync_count = 0

\* C6: after a transport error the connector is Unsynced when the snapshot of
\* the reconnect is fetched, whether or not it was Synced before the error.
C6_ReconnectEntersUnsynced ==
    (obPc = "fetch" /\ fetchCtx = "reconnect") => ~synced

\* C7: the pending-diff buffer never holds more than its capacity.
C7_PendingBufferBounded ==
    Len(snapshot_pending) <= PendingCapacity

\* The size a list of [price, qty] entries gives for price p (NoChange if none)
EntryAt(entries, p) ==
    IF \E i \in 1 .. Len(entries) : entries[i][1] = p
    THEN entries[CHOOSE i \in 1 .. Len(entries) : entries[i][1] = p][2]
    ELSE NoChange

\* C8: a diff entry (price, 0) on one side removes only that side: when the
\* other side of the level has a size (its old one, or the one the same diff
\* gives it), the level stays in the book with that size.
C8_ZeroEntryKeepsOtherSide ==
    [][(LiveDiffWhileSynced /\ Len(fwd') = 1) =>
        LET d == NextEvent
            old(p) == IF p \in DOMAIN order_book THEN order_book[p] ELSE [bid |-> 0, ask |-> 0]
            bidAfter(p) == IF EntryAt(d.b, p) = NoChange THEN old(p).bid ELSE EntryAt(d.b, p)
            askAfter(p) == IF EntryAt(d.a, p) = NoChange THEN old(p).ask ELSE EntryAt(d.a, p)
        IN  \A p \in Prices :
              /\ (EntryAt(d.a, p) = 0 /\ bidAfter(p) > 0) =>
                    p \in DOMAIN order_book' /\ order_book'[p].bid = bidAfter(p)
              /\ (EntryAt(d.b, p) = 0 /\ askAfter(p) > 0) =>
                    p \in DOMAIN order_book' /\ order_book'[p].ask = askAfter(p)]_vars

\* C9: the order book holds no level whose bid size and ask size are both 0.
C9_NoEmptyLevel ==
    \A p \in DOMAIN order_book : order_book[p].bid > 0 \/ order_book[p].ask > 0

\* C9 witness: a forwarded diff with a zero-size entry took a level out of the
\* book
C9_Witness ==
    /\ lastEvent.kind = "diff"
    /\ Len(fwd) = 1
    /\ (DOMAIN previous_book) \ (DOMAIN order_book) # {}
    /\ order_book # EmptyBook

\* C10: whenever both sides of the book are quoted, the highest bid price is
\* strictly below the lowest ask price.
C10_BestBidBelowBestAsk ==
    LET bidPs == {p \in DOMAIN order_book : order_book[p].bid > 0}
        askPs == {p \in DOMAIN order_book : order_book[p].ask > 0}
    IN  (bidPs # {} /\ askPs # {}) => Max(bidPs) < Min(askPs)

\* ------------------------------------------------- claims on the trade tick

\* The times the next trade can arrive at, if one can
TickTimes == IF trade_count < MaxTrades
             THEN {t \in {now + dt : dt \in TimeSteps} : t <= MaxTime}
             ELSE {}
\* The signals emitted so far
Emitted == {signal_history[i] : i \in 1 .. Len(signal_history)}

\* C11: the emission times of any two emitted signals (BUY or SELL, primary or
\* alternative path) are at least COOLDOWN_SECONDS apart.
C11_SignalsCooldownApart ==
    \A i, j \in 1 .. Len(signal_history) :
        i < j => signal_history[j].timestamp - signal_history[i].timestamp >= COOLDOWN_SECONDS

\* Two signals were emitted, the second as soon as the cooldown allowed
C11_Witness ==
    /\ Len(signal_history) = 2
    /\ signal_history[2].timestamp - signal_history[1].timestamp = COOLDOWN_SECONDS

C13_ConfidenceBounds ==
    \A sg \in Emitted : 60 <= sg.confidence /\ sg.confidence <= 100

\* A signal with all four features, and one with the sweep and the flip alone
C13_Witness ==
    /\ \E sg \in Emitted : sg.confidence = 100 /\ sg.sweep_levels > 0
    /\ \E sg \in Emitted : sg.confidence = 70

\* The conditions scenarios S4 to S6 share on a tick at time t with market
\* state ms: the trade at 1999 flips the normalized delta from -60 to +60 with
\* MIN_DELTA_FLIP = 30, absorption is active, the book is loaded, no cooldown.
ScenarioTick(ms, t) ==
    /\ MIN_DELTA_FLIP = 30
    /\ delta_history_len >= 1
    /\ previous_delta = -60
    /\ ms.normalized_delta = 60
    /\ ms.price = ZoneMin + 1
    /\ ms.absorption
    /\ ms.is_synced
    /\ ~(t - last_signal_time < COOLDOWN_SECONDS)

\* S4's sweep
IsS4Sweep(sweep) == sweep.direction = "down" /\ sweep.prices = ZoneMin .. BasePrice

\* C15 (scenario S4): on a tick with a confirmed down-sweep over 1998..2000,
\* last trade at 1999, the delta flip, absorption and a normal regime, a BUY
\* signal of confidence exactly 90 is emitted.
C15_S4BuyConfidence90 ==
    \A t \in TickTimes, ms \in MarketStates :
        ScenarioTick(ms, t) /\ IsS4Sweep(ms.liquidity_sweep) /\ ms.volatility_state = "normal"
            => LET sg == generate_signal(GenMachine, ms, t).signal
               IN  sg.type = "BUY" /\ sg.confidence = 90

\* C15 as the code has it: on the S4 tick the last trade price 1999 lies above
\* the lowest swept price, so the reclaim counts too and the BUY signal has
\* confidence 30 + 40 + 20 + 10 = 100.
C15_S4BuyConfidence100 ==
    \A t \in TickTimes, ms \in MarketStates :
        ScenarioTick(ms, t) /\ IsS4Sweep(ms.liquidity_sweep) /\ ms.volatility_state = "normal"
            => LET sg == generate_signal(GenMachine, ms, t).signal
               IN  sg.type = "BUY" /\ sg.confidence = 100

\* The tick of S4 happened: after a delta of -60 the second trade, at 1999,
\* brought +60 and the BUY signal over the three swept levels
C15_Witness ==
    /\ MIN_DELTA_FLIP = 30
    /\ trade_count = 2
    /\ previous_delta = 60
    /\ current_price = ZoneMin + 1
    /\ \E sg \in Emitted :
          /\ sg.type = "BUY" /\ sg.confidence = 100 /\ sg.sweep_levels = 3
          /\ sg.price = ZoneMin + 1 /\ sg.volatility = "normal"

\* C16: every emitted signal carries a pattern field, sweep for the primary
\* path (the signals with swept levels) and no_sweep for the alternative path.
C16_SignalCarriesPattern ==
    \A sg \in Emitted :
        /\ "pattern" \in DOMAIN sg
        /\ sg.pattern = IF sg.sweep_levels > 0 THEN "sweep" ELSE "no_sweep"

S5Analyzer(trades) ==
    LET before == update_orderbook([order_book |-> EmptyBook, previous_book |-> EmptyBook,
                                    is_snapshot_loaded |-> FALSE],
                                   SnapshotData(Min(BookSizes)), 0)
        after == update_orderbook(before,
                                  [is_snapshot |-> FALSE,
                                   bids |-> BidRun(ZoneMin, BasePrice, 0), asks |-> <<>>],
                                  0)
    IN  [order_book |-> after.order_book, previous_book |-> after.previous_book,
         is_snapshot_loaded |-> after.is_snapshot_loaded,
         book_snapshot_time |-> StartTime, recent_trades_for_sweep |-> trades]

\* The trades S5 allows at StartTime: outside the swept zone, or older than 2 s
S5Trades ==
    {tr \in [timestamp : {StartTime - 3, StartTime}, price : TradePrices,
               size : BookSizes, side : {"buy", "sell"}] :
        ~(/\ tr.timestamp >= StartTime - 2
          /\ ZoneMin <= tr.price /\ tr.price <= BasePrice)}

S5TradeLists == {<<>>} \cup {<<a>> : a \in S5Trades} \cup {<<a, b>> : a, b \in S5Trades}

S5NoSweepReported ==
    \A trades \in S5TradeLists : detect_liquidity_sweep(S5Analyzer(trades), StartTime) = NoSweep

C18_RejectionsCountedByReason ==
    /\ filter_reasons = rejections
    /\ signals_filtered = filter_reasons["extreme_volatility"] + filter_reasons["book_not_synced"]
    /\ \A t \in TickTimes, ms \in MarketStates :
          ScenarioTick(ms, t) /\ IsS4Sweep(ms.liquidity_sweep) /\ ms.volatility_state = "extreme"
              => LET r == generate_signal(GenMachine, ms, t)
                 IN  /\ r.signal = NoSignal
                     /\ r.g.filter_reasons["extreme_volatility"]
                            > filter_reasons["extreme_volatility"]
                     /\ r.g.signals_filtered > signals_filtered

\* The tick of S6 happened: the features of S4 are set, nothing was emitted,
\* and the only rejections counted are for extreme volatility
C18_Witness ==
    /\ MIN_DELTA_FLIP = 30
    /\ trade_count = 2
    /\ previous_delta = 60
    /\ IsS4Sweep(recent_sweep)
    /\ current_state.absorption_detected
    /\ current_price = ZoneMin + 1
    /\ signal_history = <<>>
    /\ filter_reasons["extreme_volatility"] > 0
    /\ filter_reasons["book_not_synced"] = 0



\* ------------------------------------------------------ claims on the sweeps

\* The trades that confirm a sweep at the present time: of the last 2 seconds,
\* priced inside the swept zone lo..hi, on the side that sweeps
ConfirmingTrades(lo, hi, direction) ==
    {i \in 1 .. Len(recent_trades_for_sweep) :
        LET tr == recent_trades_for_sweep[i]
        IN  /\ now - tr.timestamp <= 2 /\ tr.timestamp <= now
            /\ lo <= tr.price /\ tr.price <= hi
            /\ tr.side = (IF direction = "down" THEN "sell" ELSE "buy")}

RECURSIVE TradeNotional(_)
TradeNotional(I) ==
    IF I = {} THEN 0
    ELSE LET i == CHOOSE j \in I : TRUE
         IN  recent_trades_for_sweep[i].price * recent_trades_for_sweep[i].size
                 + TradeNotional(I \ {i})

TradeConfirmed(lo, hi, direction) ==
    /\ ConfirmingTrades(lo, hi, direction) # {}
    /\ TradeNotional(ConfirmingTrades(lo, hi, direction))
           >= MIN_TRADE_CONFIRM_NOTIONAL * SizeDivisor

\* C14: every sweep detect_liquidity_sweep returns is trade-confirmed: a trade
\* of the last 2 seconds lies in the swept zone on the matching side, and the
\* matching in-zone trades sum to MIN_TRADE_CONFIRM_NOTIONAL or more.
C14_SweepIsTradeConfirmed ==
    sweepReport # NoSweep =>
        TradeConfirmed(Min(sweepReport.prices), Max(sweepReport.prices),
                       sweepReport.direction)

\* A down-sweep of three levels that took two sell trades to confirm
C14_Witness ==
    /\ sweepReport.direction = "down"
    /\ sweepReport.levels_removed = 3
    /\ Cardinality(ConfirmingTrades(Min(sweepReport.prices), Max(sweepReport.prices),
                                    "down")) = 2

\* The bid levels the last book update removed: quoted before it, gone or
\* without a bid after it
RemovedBids ==
    {p \in DOMAIN bookBefore :
        /\ bookBefore[p].bid > 0
        /\ p \notin DOMAIN order_book \/ order_book[p].bid = 0}

RECURSIVE BidNotional(_)
BidNotional(ps) ==
    IF ps = {} THEN 0
    ELSE LET p == CHOOSE q \in ps : TRUE
         IN  p * bookBefore[p].bid + BidNotional(ps \ {p})

SweepPreconditions ==
    /\ previous_book # EmptyBook
    /\ order_book # EmptyBook
    /\ is_snapshot_loaded
    /\ (now - book_snapshot_time) * 1000 <= LIQUIDITY_SWEEP_TIME_MS
    /\ RemovedBids # {} => RemovedBids = Min(RemovedBids) .. Max(RemovedBids)

DownSweepConditions ==
    /\ Cardinality(RemovedBids) >= LIQUIDITY_SWEEP_MIN_LEVELS
    /\ BidNotional(RemovedBids) >= MIN_SWEEP_NOTIONAL * SizeDivisor
    /\ TradeConfirmed(Min(RemovedBids), Max(RemovedBids), "down")

\* C19: with the sweep preconditions satisfied and exactly k adjacent bid
\* levels removed, a trade tick returns a down-sweep if and only if k >=
\* LIQUIDITY_SWEEP_MIN_LEVELS, the cluster notional is >= MIN_SWEEP_NOTIONAL
\* and the trade confirmation is met.
C19_DownSweepIffConditions ==
    [][SweepTick => (SweepPreconditions' =>
            ((sweepReport'.direction = "down") <=> DownSweepConditions'))]_vars


\* ------------------------------------------------ claims on the snapshot request

\* C20: a snapshot request that fails is requested again instead of being
\* given up at its first failure, whether it was made on the initial connect,
\* on a reconnect or for a re-sync.
C20_FailedSnapshotIsRetried ==
    [][(FetchFail /\ lastEvent.kind # "fetch_fail") => obPc' = "fetch"]_vars

\* C27: on every signal emission last_signal_time becomes the emission time,
\* the signal is appended to the history, the stored sweep is cleared, and
\* sweep_detected, absorption_detected, delta_flip and price_reclaim are all
\* reset to false.
C27_EmissionResetsState ==
    [][Len(signal_history') > Len(signal_history)
         => /\ last_signal_time' = now'
            /\ Len(signal_history') = Len(signal_history) + 1
            /\ SubSeq(signal_history', 1, Len(signal_history)) = signal_history
            /\ signal_history'[Len(signal_history')].timestamp = now'
            /\ recent_sweep' = NoSweep
            /\ ~current_state'.sweep_detected
            /\ ~current_state'.absorption_detected
            /\ current_state'.delta_flip = "none"
            /\ ~current_state'.price_reclaim]_vars

\* A primary-path signal has just been emitted on a tick with absorption: the
\* sweep it was built on is gone and its emission time is the last signal time
C27_Witness ==
    /\ Len(signal_history) >= 1
    /\ signal_history[Len(signal_history)].timestamp = now
    /\ signal_history[Len(signal_history)].sweep_levels > 0
    /\ signal_history[Len(signal_history)].confidence >= 90
    /\ last_signal_time = now
    /\ recent_sweep = NoSweep

\* A signal of the primary (with-sweep) path: it carries no pattern field
IsPrimary(signal) == signal # NoSignal /\ "pattern" \notin DOMAIN signal

\* C25: whatever the next market state, a primary-path signal is emitted only
\* when a sweep of the matching direction (down for BUY, up for SELL) is active
\* and the matching delta flip (bullish for BUY, bearish for SELL) is set; its
\* confidence is 30 + 40, plus 20 if absorption is detected on that tick, plus
\* 10 if price_reclaim is set.
C25_PrimaryPathConditions ==
    \A t \in TickTimes, ms \in MarketStates :
        LET signal == generate_signal(GenMachine, ms, t).signal
            g1 == update_state(GenMachine, ms, t)
            buy == signal.type = "BUY"
        IN  IsPrimary(signal)
              => /\ g1.recent_sweep # NoSweep
                 /\ g1.recent_sweep.direction = (IF buy THEN "down" ELSE "up")
                 /\ g1.current_state.delta_flip = (IF buy THEN "bullish" ELSE "bearish")
                 /\ signal.confidence = 30 + 40
                                        + (IF ms.absorption THEN 20 ELSE 0)
                                        + (IF g1.current_state.price_reclaim THEN 10 ELSE 0)

\* A primary-path BUY was emitted with the bare 70 and a primary-path SELL with
\* absorption and reclaim, 100
C25_Witness ==
    /\ \E s \in Emitted : IsPrimary(s) /\ s.type = "BUY" /\ s.confidence = 70
    /\ \E s \in Emitted : IsPrimary(s) /\ s.type = "SELL" /\ s.confidence = 100

\* A signal of the alternative (no-sweep) path
IsAlternative(signal) == signal # NoSignal /\ "pattern" \in DOMAIN signal

\* C26: whatever the next market state, an alternative-path signal is emitted
\* only when the matching delta flip is set, absorption is detected and the raw
\* delta is beyond 2 x MIN_DELTA_FLIP (above for BUY, below the negative for
\* SELL); its confidence is 50 + 30, plus 20 if |delta| > 3 x MIN_DELTA_FLIP,
\* its pattern is no_sweep and its sweep_levels 0.
C26_AlternativePathConditions ==
    \A t \in TickTimes, ms \in MarketStates :
        LET signal == generate_signal(GenMachine, ms, t).signal
            g1 == update_state(GenMachine, ms, t)
            buy == signal.type = "BUY"
        IN  IsAlternative(signal)
              => /\ g1.current_state.delta_flip = (IF buy THEN "bullish" ELSE "bearish")
                 /\ ms.absorption
                 /\ IF buy THEN ms.delta > 2 * MIN_DELTA_FLIP
                           ELSE ms.delta < 0 - 2 * MIN_DELTA_FLIP
                 /\ signal.confidence = 50 + 30
                        + (IF Abs(ms.delta) > 3 * MIN_DELTA_FLIP THEN 20 ELSE 0)
                 /\ signal.pattern = "no_sweep"
                 /\ signal.sweep_levels = 0

\* An alternative-path SELL was emitted with 80: the raw delta lay between two
\* and three times MIN_DELTA_FLIP
C26_Witness ==
    \E s \in Emitted : /\ IsAlternative(s) /\ s.type = "SELL" /\ s.confidence = 80
                       /\ s.delta < 0 - 2 * MIN_DELTA_FLIP
                       /\ s.delta >= 0 - 3 * MIN_DELTA_FLIP

\* C28: whatever the next market state, a primary-path signal is built on the
\* sweep reported on the emitting tick or on a stored sweep reported at most
\* SWEEP_MAX_AGE seconds before it, never on an older one.
C28_NoSignalOnStaleSweep ==
    \A t \in TickTimes, ms \in MarketStates :
        LET signal == generate_signal(GenMachine, ms, t).signal
        IN  IsPrimary(signal)
              => IF ms.liquidity_sweep # NoSweep
                 THEN signal.sweep_levels = ms.liquidity_sweep.levels_removed
                 ELSE /\ recent_sweep # NoSweep
                      /\ t - sweep_time <= SWEEP_MAX_AGE
                      /\ signal.sweep_levels = recent_sweep.levels_removed

\* A primary-path signal was emitted on a sweep reported exactly SWEEP_MAX_AGE
\* seconds earlier
C28_Witness ==
    /\ Len(signal_history) >= 1
    /\ IsPrimary(signal_history[Len(signal_history)])
    /\ signal_history[Len(signal_history)].timestamp = now
    /\ now - sweep_time = SWEEP_MAX_AGE

\* The flip condition of lines 87-93 on the tick (g, ms): the history holds two
\* deltas, and the last two lie on opposite sides beyond min_flip
FlipCondition(g, ms) ==
    /\ g.delta_history_len >= 1
    /\ ExceedsMinFlip(Abs(ms.normalized_delta - g.previous_delta), ms)
    /\ \/ ExceedsMinFlip(-g.previous_delta, ms) /\ ExceedsMinFlip(ms.normalized_delta, ms)
       \/ ExceedsMinFlip(g.previous_delta, ms) /\ ExceedsMinFlip(-ms.normalized_delta, ms)

\* C29: whatever the next market state, on a tick more than FLIP_CLEAR_AFTER
\* seconds after the last sweep on which the flip condition does not hold,
\* delta_flip is none after update_state.
C29_FlipClearedAfterFiveSeconds ==
    \A t \in TickTimes, ms \in MarketStates :
        LET g1 == update_state(GenMachine, ms, t)
        IN  (t - g1.sweep_time > FLIP_CLEAR_AFTER /\ ~FlipCondition(GenMachine, ms))
              => g1.current_state.delta_flip = "none"

\* C21: a malformed order-book frame read while Synced (undecodable text, or a
\* diff with missing or invalid fields) is dropped: synced, last_update_id,
\* desync_count and the pending buffer are unchanged, and no reconnect and no
\* re-snapshot is triggered.
C21_MalformedFrameDropped ==
    [][RecvMalformed => /\ UNCHANGED <<synced, last_update_id, desync_count,
                                       snapshot_pending>>
                        /\ obPc' = "recv"]_vars

\* C22: from the moment a snapshot has been applied until the pending buffer
\* is completely drained no live diff is processed: the step that applies the
\* snapshot reads no frame of the stream, forwards after the snapshot only
\* diffs of the buffer, and leaves the buffer empty unless it goes on to fetch
\* again; and a live diff read while the buffer holds diffs is not applied.
C22_NoLiveDiffDuringDrain ==
    [][/\ FetchOk
            => /\ batch' = batch
               /\ fwd' # <<>> /\ fwd'[1].snap
               /\ \A i \in 2 .. Len(fwd') :
                     /\ ~fwd'[i].snap
                     /\ \E j \in 1 .. Len(snapshot_pending) :
                           /\ snapshot_pending[j].U = fwd'[i].U
                           /\ snapshot_pending[j].u = fwd'[i].u
               /\ obPc' # "fetch" => snapshot_pending' = <<>>
       /\ (RecvDiff /\ snapshot_pending # <<>>)
            => /\ fwd' = <<>>
               /\ UNCHANGED <<order_book, last_update_id>>]_vars

\* A snapshot was applied and two buffered diffs drained after it while the
\* next depth event of the stream was waiting to be read
C22_Witness ==
    /\ lastEvent.kind = "snapshot"
    /\ Len(fwd) >= 3
    /\ fwd[1].snap
    /\ batch # EmptyBatch
    /\ snapshot_pending = <<>>
    /\ obPc = "recv"

\* The classification of an ATR (in units of 1e-5)
Classification(a) ==
    IF a < 10 THEN "calm"
    ELSE IF a < 30 THEN "normal"
    ELSE IF a < 70 THEN "volatile"
    ELSE "extreme"

\* C30: after every processed trade with at least 20 price changes recorded,
\* volatility_state is the classification of the current ATR, for every ATR
\* >= 0 (calm below 1e-4, normal below 3e-4, volatile below 7e-4, extreme
\* otherwise); it never keeps an earlier classification.
C30_RegimeFollowsAtr ==
    price_changes_len >= ATR_MIN_CHANGES
        => analyzer_atr.set /\ volatility_state = Classification(analyzer_atr.value)

\* C23: in every interleaving of the order-book task and the trades task the
\* handling of a trade (add_trade, get_market_state, generate_signal) and the
\* handling of a book update (update_orderbook) do not interleave: neither
\* starts while the other is under way, and get_market_state never reads a
\* book to which only a part of an update has been applied.
C23_HandlersDoNotInterleave ==
    /\ ~(bookPc # "recv" /\ tradePc # "recv")
    /\ ~observedPartial
    /\ loopTask = (IF bookPc # "recv" THEN "orderbook"
                   ELSE IF tradePc # "recv" THEN "trades" ELSE "none")

\* The trade handler is between add_trade and get_market_state while the next
\* diff of the order-book stream is waiting, the snapshot having been applied
C23_Witness ==
    /\ tradePc = "state"
    /\ is_snapshot_loaded
    /\ bookUpdatesSeen >= 1
    /\ bookUpdatesSeen < MaxBookUpdates
    /\ order_book # bookBefore

\* Both stream loops have ended (the order-book task also when a failed
\* snapshot request has ended it)
LoopsExited == obPc \in {"done", "dead"} /\ trPc = "done"

\* C24: once stop() has cleared running and closed the transports, both stream
\* loops eventually exit, whatever each was doing when stop() was called
\* (reading frames, connecting, or sleeping before a reconnect).
C24_StopEndsBothLoops == (~running) ~> LoopsExited

\* stop() came while the order-book task slept before a reconnect and while
\* the trades task connected: the first ended after its re-snapshot, the
\* second at the first frame of the socket it opened after stop()
C24_Witness ==
    /\ ~running
    /\ LoopsExited
    /\ lastEvent.kind = "snapshot"
    /\ lastEvent.ctx = "reconnect"
    /\ trades_ws = "closed"
    /\ trade_count = 0

\* The mean of the newest ATR_MIN_CHANGES recorded price changes, in units of
\* 1e-5, once one more than that many have been recorded
MeanOfLastTwenty == MeanPriceChange(price_changes_sum - oldest_change, ATR_MIN_CHANGES)

\* C31: the ATR used for the regime classification and the delta window is the
\* mean of the absolute relative price changes of the last 20 trades only:
\* with 21 changes recorded the oldest one does not enter the ATR, and the
\* regime is the classification of the mean of the newest 20.
C31_AtrOverLastTwenty ==
    price_changes_len = ATR_MIN_CHANGES + 1
        => /\ analyzer_atr.set
           /\ analyzer_atr.value = MeanOfLastTwenty
           /\ MeanOfLastTwenty > 0 => volatility_state = Classification(MeanOfLastTwenty)

\* C31, amended: once at least 20 price changes are recorded the ATR is the
\* mean of every recorded change (the deque keeps up to 100 of them), the
\* oldest included.
C31_AtrOverAllRecorded ==
    price_changes_len >= ATR_MIN_CHANGES
        => /\ analyzer_atr.set
           /\ analyzer_atr.value = MeanPriceChange(price_changes_sum, price_changes_len)

\* 21 changes are recorded, the oldest of them and two of the newest 20 being
\* price moves: the mean of all 21 is normal, the mean of the newest 20 calm
C31_Witness ==
    /\ price_changes_len = ATR_MIN_CHANGES + 1
    /\ oldest_change > 0
    /\ volatility_state = "normal"
    /\ Classification(MeanOfLastTwenty) = "calm"
    /\ MeanOfLastTwenty > 0

\* C32: detect_absorption returns no result unless at least 10 trades fall
\* inside the last-10-seconds window it analyses; with fewer than 10 trades in
\* that window the tick has no absorption.
C32_TenTradesInWindow ==
    lastAbsorption.found
        => Len(RecentTrades(analyzer_trades, now)) >= ABSORPTION_MIN_TRADES

\* get_market_state as the trade handler would call it now, with no sweep, no
\* absorption and no delta: 'is_synced' is the analyzer's is_snapshot_loaded
MarketStateNow ==
    MarketState(current_price, 0, NoSweep, FALSE, 0, volatility_state, is_snapshot_loaded)

\* C33: whenever the connector is not Synced (before its first sync, after a
\* desync reset, after a failed re-snapshot) the is_synced of the market state
\* handed to the signal generator is false, and check_regime_filter rejects
\* the tick as book_not_synced.
C33_UnsyncedConnectorIsFiltered ==
    ~synced => /\ ~MarketStateNow.is_synced
               /\ check_regime_filter(GenMachine, MarketStateNow).filtered

C35_LastUpdateIdNeverDecreases ==
    [][lastEvent'.kind = "diff" /\ lastEvent' # lastEvent
           => /\ last_update_id' >= last_update_id
              /\ lastEvent'.u < last_update_id => fwd' = <<>>]_vars

\* C36: the first diff applied after a snapshot with id S, the one with
\* U <= S+1 <= u that establishes the sync, is never counted as a sequence gap:
\* when a drain applied the snapshot and that diff alone, desync_count is what
\* it was before, also when the diff's U is below S+1.
C36_SyncingDiffIsNoGap ==
    (/\ lastEvent.kind = "snapshot"
     /\ Len(fwd) = 2
     /\ fwd[2].first /\ ~fwd[2].wasSynced)
        => desync_count = lastEvent.dc

\* C37: price_reclaim is true only while a sweep is stored and the price has
\* crossed that sweep's boundary: after every tick a set flag goes with a
\* stored sweep, and either the tick's price lies beyond that sweep's boundary
\* or the flag was set before for the same stored sweep. A reclaim of a sweep
\* that expired or was replaced does not stay.
C37_ReclaimBelongsToStoredSweep ==
    [][current_state'.price_reclaim
          => /\ recent_sweep' # NoSweep
             /\ \/ PriceReclaimed(recent_sweep', current_price')
                \/ recent_sweep' = recent_sweep /\ current_state.price_reclaim]_vars

\* The market state as it would pass check_regime_filter
PassingFilter(ms) == [ms EXCEPT !.volatility_state = "normal", !.is_synced = TRUE]

\* C38: on a single tick signals_filtered increases by at most one, and only
\* on a tick on which a BUY or a SELL would have been emitted had the filter
\* not rejected it.
C38_OneFilteredSignalPerTick ==
    \A t \in TickTimes, ms \in MarketStates :
        LET r == generate_signal(GenMachine, ms, t)
        IN  /\ r.g.signals_filtered <= signals_filtered + 1
            /\ r.g.signals_filtered > signals_filtered
                   => generate_signal(GenMachine, PassingFilter(ms), t).signal # NoSignal

C40_NoSnapshotRequestAfterStop ==
    [][~running
           => /\ ~(obPc # "fetch" /\ obPc' = "fetch")
              /\ obPc # "fetch" /\ lastEvent' # lastEvent => fwd' = <<>>]_vars

====
